---- MODULE Spec2Model ----
(***************************************************************************)
(* A model of .github/scripts/validate_workflow.py: the workflow           *)
(* validator's driver (main), its document loader, its dialect resolver,   *)
(* its embedded-script checks and its release-pipeline structural rules.   *)
(*                                                                         *)
(* Python strings are TLA+ strings; Chars gives the characters of a string *)
(* and every string operation (lower, strip, "in", the regular             *)
(* expressions) is computed on those characters.  YAML values are tagged   *)
(* records (Null, S, I, L, M); a mapping keeps its keys in document order. *)
(***************************************************************************)
EXTENDS Integers, Sequences, FiniteSets, TLC

VARIABLES args, fs, env, pc, workflow_paths, BASH_READY, probes, failures,
          idx, data, errors, checks, returned, run_blocks, bidx, stderr, stdout,
          exit_code

vars == <<args, fs, env, pc, workflow_paths, BASH_READY, probes, failures,
          idx, data, errors, checks, returned, run_blocks, bidx, stderr, stdout,
          exit_code>>

-----------------------------------------------------------------------------
(* Python strings *)

\* a Python string as the sequence of its characters
Chars(s) == [i \in 1..Len(s) |-> SubSeq(s, i, i)]

Ws == {" ", "\t", "\n", "\r"}

UpperToLower ==
    ("A" :> "a") @@ ("B" :> "b") @@ ("C" :> "c") @@ ("D" :> "d") @@ ("E" :> "e")
 @@ ("F" :> "f") @@ ("G" :> "g") @@ ("H" :> "h") @@ ("I" :> "i") @@ ("J" :> "j")
 @@ ("K" :> "k") @@ ("L" :> "l") @@ ("M" :> "m") @@ ("N" :> "n") @@ ("O" :> "o")
 @@ ("P" :> "p") @@ ("Q" :> "q") @@ ("R" :> "r") @@ ("S" :> "s") @@ ("T" :> "t")
 @@ ("U" :> "u") @@ ("V" :> "v") @@ ("W" :> "w") @@ ("X" :> "x") @@ ("Y" :> "y")
 @@ ("Z" :> "z")

Digits == {"0", "1", "2", "3", "4", "5", "6", "7", "8", "9"}

IdentStart ==
    DOMAIN UpperToLower \cup {UpperToLower[c] : c \in DOMAIN UpperToLower} \cup {"_"}

IdentChar == IdentStart \cup Digits

\* str.lower()
Lower(cs) ==
    [i \in 1..Len(cs) |->
        IF cs[i] \in DOMAIN UpperToLower THEN UpperToLower[cs[i]] ELSE cs[i]]

\* str.strip()
Strip(cs) ==
    LET keep == {i \in 1..Len(cs) : cs[i] \notin Ws}
    IN  IF keep = {} THEN <<>>
        ELSE LET lo == CHOOSE i \in keep : \A j \in keep : i <= j
                 hi == CHOOSE i \in keep : \A j \in keep : i >= j
             IN  SubSeq(cs, lo, hi)

\* cs[i:].startswith(sub), i counted from 1
StartsAt(cs, i, sub) ==
    /\ i >= 1
    /\ i + Len(sub) - 1 <= Len(cs)
    /\ SubSeq(cs, i, i + Len(sub) - 1) = sub

\* sub in cs
Contains(cs, sub) == \E i \in 1..(Len(cs) + 1) : StartsAt(cs, i, sub)

RECURSIVE Dedupe(_)
\* unique: list = []; for v in values: if v not in unique: unique.append(v)
Dedupe(seq) ==
    IF seq = <<>> THEN <<>>
    ELSE LET front == Dedupe(SubSeq(seq, 1, Len(seq) - 1))
             last == seq[Len(seq)]
         IN  IF \E i \in 1..Len(front) : front[i] = last
             THEN front ELSE Append(front, last)

RECURSIVE Flatten(_)
Flatten(seqs) ==
    IF seqs = <<>> THEN <<>> ELSE Head(seqs) \o Flatten(Tail(seqs))

-----------------------------------------------------------------------------
(* YAML values as yaml.safe_load returns them *)

Null == [t |-> "null"]
S(s) == [t |-> "str", s |-> s]
I(n) == [t |-> "int", n |-> n]
L(items) == [t |-> "list", items |-> items]
M(pairs) == [t |-> "map", pairs |-> pairs]

IsStr(v) == v.t = "str"
IsList(v) == v.t = "list"
IsMap(v) == v.t = "map"

\* PyYAML reads an unquoted on: key as the boolean True
KeyTrue == "<True>"

\* key in mapping
Has(m, k) == \E i \in 1..Len(m.pairs) : m.pairs[i][1] = k

\* mapping.get(key)
Get(m, k) ==
    IF Has(m, k)
    THEN m.pairs[CHOOSE i \in 1..Len(m.pairs) : m.pairs[i][1] = k][2]
    ELSE Null

\* mapping.get(key) for a key known by its characters (a regex group)
GetChars(m, kcs) ==
    IF \E i \in 1..Len(m.pairs) : Chars(m.pairs[i][1]) = kcs
    THEN m.pairs[CHOOSE i \in 1..Len(m.pairs) : Chars(m.pairs[i][1]) = kcs][2]
    ELSE Null

\* bool(value) of a str | None
Truthy(v) == IsStr(v) /\ Chars(v.s) # <<>>

-----------------------------------------------------------------------------
(* Dialect resolver *)

normalize_shell_name(shell) ==
    IF ~IsStr(shell) THEN "unknown"
    ELSE LET lowered == Strip(Lower(Chars(shell.s)))
         IN  IF Contains(lowered, Chars("pwsh")) \/ Contains(lowered, Chars("powershell"))
             THEN "pwsh"
             ELSE IF lowered \in {Chars("bash"), Chars("sh")} \/ Contains(lowered, Chars("bash"))
             THEN "bash"
             ELSE "unknown"

read_run_default_shell(node) ==
    LET defaults == Get(node, "defaults")
    IN  IF ~IsMap(defaults) THEN Null
        ELSE LET run_defaults == Get(defaults, "run")
             IN  IF ~IsMap(run_defaults) THEN Null
                 ELSE LET shell == Get(run_defaults, "shell")
                      IN  IF ~IsStr(shell) THEN Null
                          ELSE S(normalize_shell_name(shell))

\* MATRIX_EXPR_RE.match(cs).group(1), or <<>> when there is no match
MATRIX_EXPR_RE(cs) ==
    LET n == Len(cs)
    IN  IF n < 5 \/ ~StartsAt(cs, 1, Chars("${{")) \/ ~StartsAt(cs, n - 1, Chars("}}"))
        THEN <<>>
        ELSE LET inner == Strip(SubSeq(cs, 4, n - 2))
                 key == SubSeq(inner, 8, Len(inner))
             IN  IF /\ StartsAt(inner, 1, Chars("matrix."))
                    /\ key # <<>>
                    /\ key[1] \in IdentStart
                    /\ \A i \in 1..Len(key) : key[i] \in IdentChar
                 THEN key ELSE <<>>

resolve_matrix_values(strategy, key) ==
    IF ~IsMap(strategy) THEN <<>>
    ELSE LET matrix == Get(strategy, "matrix")
         IN  IF ~IsMap(matrix) THEN <<>>
             ELSE LET direct == GetChars(matrix, key)
                      fromDirect ==
                          IF IsList(direct)
                          THEN LET strs == SelectSeq(direct.items, IsStr)
                               IN  [i \in 1..Len(strs) |-> strs[i].s]
                          ELSE IF IsStr(direct) THEN <<direct.s>> ELSE <<>>
                      include == Get(matrix, "include")
                      Included(entry) == IsMap(entry) /\ IsStr(GetChars(entry, key))
                      fromInclude ==
                          IF IsList(include)
                          THEN LET hits == SelectSeq(include.items, Included)
                               IN  [i \in 1..Len(hits) |-> GetChars(hits[i], key).s]
                          ELSE <<>>
                  IN  Dedupe(fromDirect \o fromInclude)

\* append_label(value): the labels one runs-on entry contributes
append_label(strategy, value) ==
    IF ~IsStr(value) THEN <<"unknown">>
    ELSE LET matrix_key == MATRIX_EXPR_RE(Strip(Chars(value.s)))
         IN  IF matrix_key = <<>> THEN <<value.s>>
             ELSE LET matrix_values == resolve_matrix_values(strategy, matrix_key)
                  IN  IF matrix_values # <<>> THEN matrix_values ELSE <<"unknown">>

resolve_runs_on_labels(job) ==
    LET runs_on == Get(job, "runs-on")
        strategy == Get(job, "strategy")
        labels ==
            IF IsList(runs_on)
            THEN Flatten([i \in 1..Len(runs_on.items) |->
                              append_label(strategy, runs_on.items[i])])
            ELSE append_label(strategy, runs_on)
    IN  Dedupe(IF labels = <<>> THEN <<"unknown">> ELSE labels)

\* the class infer_runner_default_shell adds to `inferred` for one label
label_class(label) ==
    LET lowered == Lower(Chars(label))
    IN  IF Contains(lowered, Chars("windows")) THEN "pwsh"
        ELSE IF \/ Contains(lowered, Chars("ubuntu"))
                \/ Contains(lowered, Chars("linux"))
                \/ Contains(lowered, Chars("macos"))
        THEN "bash"
        ELSE "unknown"

\* infer_runner_default_shell deciding on the first label alone
infer_runner_default_shell_first_label(job) ==
    label_class(resolve_runs_on_labels(job)[1])

infer_runner_default_shell(job) ==
    LET labels == resolve_runs_on_labels(job)
        inferred == {label_class(labels[i]) : i \in 1..Len(labels)}
    IN  IF Cardinality(inferred) = 1
        THEN CHOOSE c \in inferred : TRUE
        ELSE "unknown"

\* job_default_shell with the workflow default taking precedence over the job's
job_default_shell_workflow_first(workflow_default_shell, job) ==
    IF Truthy(workflow_default_shell) THEN workflow_default_shell.s
    ELSE IF read_run_default_shell(job) # Null THEN read_run_default_shell(job).s
    ELSE infer_runner_default_shell(job)

\* lines 245-248: the default dialect of a job's steps
job_default_shell(workflow_default_shell, job) ==
    LET default_shell ==
            IF Truthy(workflow_default_shell)
            THEN workflow_default_shell.s
            ELSE infer_runner_default_shell(job)
        job_default == read_run_default_shell(job)
    IN  IF job_default # Null THEN job_default.s ELSE default_shell

\* lines 254-265: the run-blocks of one job's steps
step_run_blocks(job_name, default_shell, steps) ==
    LET IsRun(i) == IsMap(steps[i]) /\ IsStr(Get(steps[i], "run"))
        at == SelectSeq([i \in 1..Len(steps) |-> i], IsRun)
    IN  [k \in 1..Len(at) |->
            LET step == steps[at[k]]
            IN  [job |-> job_name,
                 step |-> at[k] - 1,
                 shell |-> IF IsStr(Get(step, "shell"))
                           THEN normalize_shell_name(Get(step, "shell"))
                           ELSE default_shell,
                 script |-> Get(step, "run").s]]

extract_job_run_blocks(root) ==
    LET workflow_default_shell == read_run_default_shell(root)
        jobs == Get(root, "jobs")
    IN  IF ~IsMap(jobs) THEN <<>>
        ELSE Flatten([j \in 1..Len(jobs.pairs) |->
                LET job_name == jobs.pairs[j][1]
                    job == jobs.pairs[j][2]
                IN  IF ~IsMap(job) THEN <<>>
                    ELSE LET steps == Get(job, "steps")
                         IN  IF ~IsList(steps) THEN <<>>
                             ELSE step_run_blocks(
                                      job_name,
                                      job_default_shell(workflow_default_shell, job),
                                      steps.items)])

is_bash_shell(shell) == normalize_shell_name(S(shell)) = "bash"

is_pwsh_shell(shell) == normalize_shell_name(S(shell)) = "pwsh"

-----------------------------------------------------------------------------
(* Diagnostics: the f-string of the source, kept as its parts *)

Diag(path, job, step, msg, names, line) ==
    [path |-> path, job |-> job, step |-> step, msg |-> msg,
     names |-> names, line |-> line, col |-> 0]

\* a diagnostic about the document as a whole
DocDiag(path, msg) == Diag(path, "", -1, msg, <<>>, 0)

\* Path.name: the characters after the last "/"
PathName(path) ==
    LET cs == Chars(path)
        slashes == {i \in 1..Len(cs) : cs[i] = "/"}
        last == IF slashes = {} THEN 0
                ELSE CHOOSE i \in slashes : \A j \in slashes : j <= i
    IN  SubSeq(cs, last + 1, Len(cs))

IsRelease(path) == PathName(path) = Chars("release-gui.yml")

-----------------------------------------------------------------------------
(* Release structural validator *)

find_on_section(root) ==
    IF Has(root, "on") THEN Get(root, "on")
    ELSE IF Has(root, KeyTrue) THEN Get(root, KeyTrue)
    ELSE Null

\* normalize_needs without the branch for a single string (lines 323-324)
normalize_needs_lists_only(needs) ==
    IF IsList(needs)
    THEN {needs.items[i].s : i \in {j \in 1..Len(needs.items) : IsStr(needs.items[j])}}
    ELSE {}

normalize_needs(needs) ==
    IF IsStr(needs) THEN {needs.s}
    ELSE IF IsList(needs)
    THEN {needs.items[i].s : i \in {j \in 1..Len(needs.items) : IsStr(needs.items[j])}}
    ELSE {}

has_uses_step(job, action_prefix) ==
    LET steps == Get(job, "steps")
    IN  IF ~IsList(steps) THEN FALSE
        ELSE \E i \in 1..Len(steps.items) :
                LET step == steps.items[i]
                IN  /\ IsMap(step)
                    /\ IsStr(Get(step, "uses"))
                    /\ StartsAt(Lower(Chars(Get(step, "uses").s)), 1,
                                Lower(Chars(action_prefix)))

\* find_step(job, step_id=...) and find_step(job, step_name=...): `key` is
\* "id" or "name", the one keyword the caller passes
find_step(job, key, wanted) ==
    LET steps == Get(job, "steps")
    IN  IF ~IsList(steps) THEN Null
        ELSE LET Hit(i) == /\ IsMap(steps.items[i])
                           /\ Get(steps.items[i], key) = S(wanted)
                 hits == {i \in 1..Len(steps.items) : Hit(i)}
             IN  IF hits = {} THEN Null
                 ELSE steps.items[CHOOSE i \in hits : \A j \in hits : i <= j]

\* sorted(required_jobs)
required_jobs == <<"build_package", "publish", "resolve_tag", "smoke">>

\* sorted(expected_matrix)
expected_matrix ==
    << <<"macos-14", "aarch64-apple-darwin">>,
       <<"ubuntu-22.04", "x86_64-unknown-linux-gnu">>,
       <<"windows-latest", "x86_64-pc-windows-msvc">> >>

\* lines 389-394
smoke_errors(path, smoke_job) ==
    IF IsMap(smoke_job)
    THEN IF "resolve_tag" \notin normalize_needs(Get(smoke_job, "needs"))
         THEN <<DocDiag(path, "smoke job must need resolve_tag")>>
         ELSE <<>>
    ELSE <<DocDiag(path, "smoke job must be a mapping")>>

\* build_errors taking a target as present once an include entry names its os
build_errors_by_os(path, build_job) ==
    IF IsMap(build_job)
    THEN LET build_needs == normalize_needs(Get(build_job, "needs"))
             strategy == Get(build_job, "strategy")
             matrix == IF IsMap(strategy) THEN Get(strategy, "matrix") ELSE Null
             include == IF IsMap(matrix) THEN Get(matrix, "include") ELSE Null
             actual_os ==
                 IF IsList(include)
                 THEN {Get(e, "os").s :
                          e \in {include.items[i] : i \in
                                    {j \in 1..Len(include.items) :
                                        /\ IsMap(include.items[j])
                                        /\ IsStr(Get(include.items[j], "os"))
                                        /\ IsStr(Get(include.items[j], "target"))}}}
                 ELSE {}
             Missing(pair) == pair[1] \notin actual_os
             missing_targets == SelectSeq(expected_matrix, Missing)
         IN  (IF ~({"resolve_tag", "smoke"} \subseteq build_needs)
              THEN <<DocDiag(path, "build_package job must need resolve_tag and smoke")>>
              ELSE <<>>)
             \o
             (IF missing_targets # <<>>
              THEN <<Diag(path, "", -1,
                          "build_package matrix is missing expected targets",
                          Flatten(missing_targets), 0)>>
              ELSE <<>>)
    ELSE <<DocDiag(path, "build_package job must be a mapping")>>

\* lines 396-424
build_errors(path, build_job) ==
    IF IsMap(build_job)
    THEN LET build_needs == normalize_needs(Get(build_job, "needs"))
             strategy == Get(build_job, "strategy")
             matrix == IF IsMap(strategy) THEN Get(strategy, "matrix") ELSE Null
             include == IF IsMap(matrix) THEN Get(matrix, "include") ELSE Null
             actual_matrix ==
                 IF IsList(include)
                 THEN {<<Get(e, "os").s, Get(e, "target").s>> :
                          e \in {include.items[i] : i \in
                                    {j \in 1..Len(include.items) :
                                        /\ IsMap(include.items[j])
                                        /\ IsStr(Get(include.items[j], "os"))
                                        /\ IsStr(Get(include.items[j], "target"))}}}
                 ELSE {}
             Missing(pair) == pair \notin actual_matrix
             missing_targets == SelectSeq(expected_matrix, Missing)
         IN  (IF ~({"resolve_tag", "smoke"} \subseteq build_needs)
              THEN <<DocDiag(path, "build_package job must need resolve_tag and smoke")>>
              ELSE <<>>)
             \o
             (IF missing_targets # <<>>
              THEN <<Diag(path, "", -1,
                          "build_package matrix is missing expected targets",
                          Flatten(missing_targets), 0)>>
              ELSE <<>>)
    ELSE <<DocDiag(path, "build_package job must be a mapping")>>

\* lines 426-436
publish_errors(path, publish_job) ==
    IF IsMap(publish_job)
    THEN (IF ~({"resolve_tag", "build_package"}
                  \subseteq normalize_needs(Get(publish_job, "needs")))
          THEN <<DocDiag(path, "publish job must need resolve_tag and build_package")>>
          ELSE <<>>)
         \o
         (IF ~has_uses_step(publish_job, "softprops/action-gh-release")
          THEN <<DocDiag(path,
                   "publish job must include softprops/action-gh-release upload step")>>
          ELSE <<>>)
    ELSE <<DocDiag(path, "publish job must be a mapping")>>

\* a validator that reports the missing jobs and goes on to the deeper checks
validate_release_job_shape_keeps_checking(path, root) ==
    IF ~IsRelease(path) THEN <<>>
    ELSE LET jobs == Get(root, "jobs")
         IN  IF ~IsMap(jobs) THEN <<DocDiag(path, "expected jobs to be a mapping")>>
             ELSE LET NotDefined(name) == ~Has(jobs, name)
                      missing == SelectSeq(required_jobs, NotDefined)
                  IN  (IF missing # <<>>
                       THEN <<Diag(path, "", -1, "missing required release jobs",
                                   missing, 0)>>
                       ELSE <<>>)
                      \o smoke_errors(path, Get(jobs, "smoke"))
                      \o build_errors(path, Get(jobs, "build_package"))
                      \o publish_errors(path, Get(jobs, "publish"))

validate_release_job_shape(path, root) ==
    IF ~IsRelease(path) THEN <<>>
    ELSE LET jobs == Get(root, "jobs")
         IN  IF ~IsMap(jobs) THEN <<DocDiag(path, "expected jobs to be a mapping")>>
             ELSE LET NotDefined(name) == ~Has(jobs, name)
                      missing == SelectSeq(required_jobs, NotDefined)
                  IN  IF missing # <<>>
                      THEN <<Diag(path, "", -1, "missing required release jobs",
                                  missing, 0)>>
                      ELSE smoke_errors(path, Get(jobs, "smoke"))
                           \o build_errors(path, Get(jobs, "build_package"))
                           \o publish_errors(path, Get(jobs, "publish"))

validate_release_trigger_rules(path, root) ==
    IF ~IsRelease(path) THEN <<>>
    ELSE LET on_section == find_on_section(root)
         IN  IF ~IsMap(on_section)
             THEN <<DocDiag(path, "expected 'on' to be a mapping")>>
             ELSE
             LET pr == IF Has(on_section, "pull_request")
                       THEN <<DocDiag(path,
                                "release workflow must not define pull_request trigger")>>
                       ELSE <<>>
                 push_section == Get(on_section, "push")
                 tags == Get(push_section, "tags")
             IN  IF ~Has(on_section, "push")
                 THEN pr \o <<DocDiag(path, "release workflow must define push tag trigger")>>
                 ELSE IF ~IsMap(push_section)
                 THEN pr \o <<DocDiag(path, "release workflow push trigger must be a mapping")>>
                 ELSE pr
                      \o (IF \/ ~IsList(tags)
                             \/ ~\E i \in 1..Len(tags.items) : tags.items[i] = S("v*")
                          THEN <<DocDiag(path, "release workflow push.tags must include 'v*'")>>
                          ELSE <<>>)
                      \o (IF ~Has(on_section, "workflow_dispatch")
                          THEN <<DocDiag(path, "release workflow must define workflow_dispatch")>>
                          ELSE <<>>)

\* the `if` of a step names the gate's output
IsGated(step) ==
    LET condition == Get(step, "if")
    IN  /\ IsStr(condition)
        /\ Contains(Chars(condition.s),
                    Chars("steps.mac_signing.outputs.enabled == 'true'"))

\* lines 505-514: one pass of the loop over the collect and upload steps
gated_step_errors(path, build_job, step_name) ==
    LET step == find_step(build_job, "name", step_name)
    IN  IF step = Null
        THEN <<Diag(path, "", -1, "missing step in build_package", <<step_name>>, 0)>>
        ELSE IF ~IsGated(step)
        THEN <<Diag(path, "", -1,
                    "step must be gated by steps.mac_signing.outputs.enabled == 'true'",
                    <<step_name>>, 0)>>
        ELSE <<>>

validate_release_macos_signing_rules(path, root) ==
    IF ~IsRelease(path) THEN <<>>
    ELSE LET jobs == Get(root, "jobs")
         IN  IF ~IsMap(jobs) THEN <<>>
             ELSE
             LET build_job == Get(jobs, "build_package")
             IN  IF ~IsMap(build_job) THEN <<>>
                 ELSE IF find_step(build_job, "id", "mac_signing") = Null
                 THEN <<DocDiag(path,
                          "build_package must define a mac signing gate step with id 'mac_signing'")>>
                 ELSE
                 LET sign_step ==
                         find_step(build_job, "name",
                                   "Sign, notarize, and verify macOS artifacts")
                 IN  (IF sign_step = Null
                      THEN <<DocDiag(path,
                               "build_package must include 'Sign, notarize, and verify macOS artifacts' step")>>
                      ELSE IF ~IsGated(sign_step)
                      THEN <<DocDiag(path,
                               "mac signing step must be gated by steps.mac_signing.outputs.enabled == 'true'")>>
                      ELSE <<>>)
                     \o gated_step_errors(path, build_job, "Collect release assets")
                     \o gated_step_errors(path, build_job, "Upload release assets")

-----------------------------------------------------------------------------
(* Embedded script checker *)

\* the first position >= i of cs that holds no whitespace (Len(cs) + 1 if none)
SkipWs(cs, i) ==
    LET rest == {j \in i..Len(cs) : cs[j] \notin Ws}
    IN  IF rest = {} THEN Len(cs) + 1
        ELSE CHOOSE j \in rest : \A k \in rest : j <= k

\* the first position >= i of cs that holds c (0 if none)
FirstAt(cs, i, c) ==
    LET hits == {j \in i..Len(cs) : cs[j] = c}
    IN  IF hits = {} THEN 0
        ELSE CHOOSE j \in hits : \A k \in hits : j <= k

\* GHA_EXPR_RE matched at position i: the position of its closing "}}", 0 when
\* it does not match there.  \$\{\{.*?\}\} with DOTALL
GHA_EXPR_RE(cs, i) ==
    LET close == {j \in (i + 3)..Len(cs) : StartsAt(cs, j, Chars("}}"))}
    IN  IF StartsAt(cs, i, Chars("${{")) /\ close # {}
        THEN CHOOSE j \in close : \A k \in close : j <= k
        ELSE 0

RECURSIVE sanitize_for_bash(_)
\* GHA_EXPR_RE.sub("GHA_EXPR", script)
sanitize_for_bash(cs) ==
    LET starts == {i \in 1..Len(cs) : GHA_EXPR_RE(cs, i) # 0}
    IN  IF starts = {} THEN cs
        ELSE LET i == CHOOSE k \in starts : \A m \in starts : k <= m
             IN  SubSeq(cs, 1, i - 1) \o Chars("GHA_EXPR")
                 \o sanitize_for_bash(SubSeq(cs, GHA_EXPR_RE(cs, i) + 2, Len(cs)))

\* the scripts `bash -n` exits non-zero on (the external syntax checker)
BashSyntaxErrors == {Chars("if true; then"), Chars("echo \"GHA_EXPR\" | (")}

\* compile(code, "<python-c>", "exec"): the SyntaxError raised, msg "" if none
PyCompile(code) ==
    IF code = Chars("def f(:")
    THEN [msg |-> "invalid syntax", lineno |-> 1, offset |-> 7]
    ELSE IF code = Chars("x = (")
    THEN [msg |-> "'(' was never closed", lineno |-> 1, offset |-> 5]
    ELSE [msg |-> "", lineno |-> 0, offset |-> 0]

\* PYTHON_C_RE matched at position i: [stop |-> last position, code |-> group(2)],
\* stop 0 when it does not match there.  python3?\s+-c\s+(['"])(.*?)\1
PYTHON_C_RE(cs, i) ==
    LET NoMatch == [stop |-> 0, code |-> <<>>]
        afterName == IF StartsAt(cs, i + 6, <<"3">>) /\ SkipWs(cs, i + 7) > i + 7
                     THEN i + 7 ELSE i + 6
        flag == SkipWs(cs, afterName)
        quote == SkipWs(cs, flag + 2)
    IN  IF /\ StartsAt(cs, i, Chars("python"))
           /\ flag > afterName
           /\ StartsAt(cs, flag, Chars("-c"))
           /\ quote > flag + 2
           /\ quote <= Len(cs)
           /\ cs[quote] \in {"'", "\""}
           /\ FirstAt(cs, quote + 1, cs[quote]) # 0
        THEN [stop |-> FirstAt(cs, quote + 1, cs[quote]),
              code |-> SubSeq(cs, quote + 1, FirstAt(cs, quote + 1, cs[quote]) - 1)]
        ELSE NoMatch

RECURSIVE python_c_snippets(_, _)
\* [match.group(2) for match in PYTHON_C_RE.finditer(script)], searching from pos
python_c_snippets(cs, pos) ==
    LET starts == {i \in pos..Len(cs) : PYTHON_C_RE(cs, i).stop # 0}
    IN  IF starts = {} THEN <<>>
        ELSE LET i == CHOOSE k \in starts : \A m \in starts : k <= m
                 found == PYTHON_C_RE(cs, i)
             IN  <<found.code>> \o python_c_snippets(cs, found.stop + 1)

check_python_c_snippets(script, path, job, step) ==
    LET codes == python_c_snippets(Chars(script), 1)
        Bad(code) == PyCompile(code).msg # ""
        bad == SelectSeq(codes, Bad)
    IN  [k \in 1..Len(bad) |->
            [path |-> path, job |-> job, step |-> step,
             msg |-> "invalid python -c snippet",
             names |-> <<PyCompile(bad[k]).msg>>,
             line |-> PyCompile(bad[k]).lineno,
             col |-> PyCompile(bad[k]).offset]]

RECURSIVE splitlines(_)
\* str.splitlines()
splitlines(cs) ==
    IF cs = <<>> THEN <<>>
    ELSE LET breaks == {i \in 1..Len(cs) : cs[i] \in {"\n", "\r"}}
         IN  IF breaks = {} THEN <<cs>>
             ELSE LET b == CHOOSE i \in breaks : \A j \in breaks : i <= j
                      e == IF cs[b] = "\r" /\ StartsAt(cs, b + 1, <<"\n">>)
                           THEN b + 1 ELSE b
                  IN  <<SubSeq(cs, 1, b - 1)>> \o splitlines(SubSeq(cs, e + 1, Len(cs)))

\* POWERSHELL_TESTPATH_AND_RE.search(line), re.IGNORECASE:
\* (?<!\()Test-Path\s+\([^)]*\)\s+-and\s+(?<!\()Test-Path\s+\(
POWERSHELL_TESTPATH_AND_RE(line) ==
    LET l == Lower(line)
        name == Chars("test-path")
    IN  \E i \in 1..Len(l) :
            /\ i = 1 \/ l[i - 1] # "("
            /\ StartsAt(l, i, name)
            /\ LET open == SkipWs(l, i + 9)
                   close == FirstAt(l, open + 1, ")")
                   and == SkipWs(l, close + 1)
                   second == SkipWs(l, and + 4)
                   open2 == SkipWs(l, second + 9)
               IN  /\ open > i + 9
                   /\ StartsAt(l, open, <<"(">>)
                   /\ close # 0
                   /\ and > close + 1
                   /\ StartsAt(l, and, Chars("-and"))
                   /\ second > and + 4
                   /\ l[second - 1] # "("
                   /\ StartsAt(l, second, name)
                   /\ open2 > second + 9
                   /\ StartsAt(l, open2, <<"(">>)

check_powershell_command_mode_traps(script, path, job, step) ==
    LET lines == splitlines(Chars(script))
        Trap(n) == POWERSHELL_TESTPATH_AND_RE(lines[n])
        hits == SelectSeq([n \in 1..Len(lines) |-> n], Trap)
    IN  [k \in 1..Len(hits) |->
            Diag(path, job, step,
                 "suspicious PowerShell Test-Path expression", <<>>, hits[k])]

-----------------------------------------------------------------------------
(* The file system and the environment the process runs in *)

\* the default of the `paths` argument (line 546)
RelFile == ".github/workflows/release-gui.yml"
CiFile == ".github/workflows/ci.yaml"
\* another spelling of CiFile
CiAlias == ".github/workflows/../workflows/ci.yaml"
WorkflowDir == ".github/workflows"
EmptyDir == "docs"
\* a third file of WorkflowDir, there only in runs whose file system holds it
BuildFile == ".github/workflows/build.yml"

Files == {RelFile, CiFile}

\* Path.is_dir()
is_dir(path) == path \in {WorkflowDir, EmptyDir}

\* Path.resolve()
resolve(path) == IF path = CiAlias THEN CiFile ELSE path

\* the file behind a path: what is stored there and what yaml.safe_load makes of it
Missing == [kind |-> "missing", root |-> Null]
BadYaml == [kind |-> "badyaml", root |-> Null]
Yaml(root) == [kind |-> "yaml", root |-> root]

FileAt(path) ==
    IF resolve(path) \in DOMAIN fs THEN fs[resolve(path)] ELSE Missing

\* Path.exists()
exists(path) == is_dir(path) \/ FileAt(path).kind # "missing"

EndsWith(cs, suffix) == StartsAt(cs, Len(cs) - Len(suffix) + 1, suffix)

\* sorted(candidate.glob("*" + suffix)); the entries of a directory in sorted order
glob(dir, suffix) ==
    LET entries == IF dir = WorkflowDir THEN <<BuildFile, CiFile, RelFile>> ELSE <<>>
        Matches(path) == exists(path) /\ EndsWith(PathName(path), Chars(suffix))
    IN  SelectSeq(entries, Matches)

\* paths made unique by their spelling, not by what they resolve to
unique_paths_by_spelling(paths) == Dedupe(paths)

RECURSIVE unique_paths(_)
\* lines 48-55: keep the first path of every resolved identity
unique_paths(paths) ==
    IF paths = <<>> THEN <<>>
    ELSE LET front == SubSeq(paths, 1, Len(paths) - 1)
             item == paths[Len(paths)]
         IN  IF \E i \in 1..Len(front) : resolve(front[i]) = resolve(item)
             THEN unique_paths(front)
             ELSE Append(unique_paths(front), item)

discover_workflow_paths(inputs) ==
    unique_paths(Flatten([i \in 1..Len(inputs) |->
        IF is_dir(inputs[i])
        THEN glob(inputs[i], ".yml") \o glob(inputs[i], ".yaml")
        ELSE <<inputs[i]>>]))

run_yamllint(paths) ==
    IF paths = <<>> THEN <<DocDiag("", "no workflow files were provided to yamllint")>>
    ELSE IF env.yamllint = "absent" THEN <<DocDiag("", "yamllint is not installed")>>
    ELSE IF env.yamllint = "fails" THEN <<DocDiag("", "yamllint failed")>>
    ELSE <<>>

\* can_run_bash without the cache (lines 74-75): every call probes
can_run_bash_uncached(ready) ==
    [ready |-> IF env.bash = "ok" THEN "True" ELSE "False", probed |-> 1]

\* can_run_bash() called with BASH_READY = ready: the new BASH_READY (which is
\* also the value returned) and whether the probe (lines 77-93) was executed
can_run_bash(ready) ==
    IF ready # "None" THEN [ready |-> ready, probed |-> 0]
    ELSE [ready |-> IF env.bash = "ok" THEN "True" ELSE "False", probed |-> 1]

\* load_yaml handing a non-mapping root on as an empty mapping
load_yaml_keeps_going(path) ==
    LET file == FileAt(path)
    IN  IF file.kind = "missing"
        THEN [data |-> Null, errors |-> <<DocDiag(path, "file does not exist")>>]
        ELSE IF file.kind = "badyaml"
        THEN [data |-> Null, errors |-> <<DocDiag(path, "YAML parse error")>>]
        ELSE IF file.root = Null
        THEN [data |-> M(<<>>), errors |-> <<>>]
        ELSE IF ~IsMap(file.root)
        THEN [data |-> M(<<>>), errors |-> <<DocDiag(path, "expected mapping at root")>>]
        ELSE [data |-> file.root, errors |-> <<>>]

\* load_yaml without the branch for an empty document (lines 106-107)
load_yaml_null_is_no_mapping(path) ==
    LET file == FileAt(path)
    IN  IF file.kind = "missing"
        THEN [data |-> Null, errors |-> <<DocDiag(path, "file does not exist")>>]
        ELSE IF file.kind = "badyaml"
        THEN [data |-> Null, errors |-> <<DocDiag(path, "YAML parse error")>>]
        ELSE IF ~IsMap(file.root)
        THEN [data |-> Null, errors |-> <<DocDiag(path, "expected mapping at root")>>]
        ELSE [data |-> file.root, errors |-> <<>>]

load_yaml(path) ==
    LET file == FileAt(path)
    IN  IF file.kind = "missing"
        THEN [data |-> Null, errors |-> <<DocDiag(path, "file does not exist")>>]
        ELSE IF file.kind = "badyaml"
        THEN [data |-> Null, errors |-> <<DocDiag(path, "YAML parse error")>>]
        ELSE IF file.root = Null
        THEN [data |-> M(<<>>), errors |-> <<>>]
        ELSE IF ~IsMap(file.root)
        THEN [data |-> Null, errors |-> <<DocDiag(path, "expected mapping at root")>>]
        ELSE [data |-> file.root, errors |-> <<>>]

\* check_bash_syntax(script, path) once can_run_bash() returned `ready`
check_bash_syntax(ready, script, path, job, step) ==
    IF ready # "True" THEN <<>>
    ELSE IF sanitize_for_bash(Chars(script)) \in BashSyntaxErrors
    THEN <<Diag(path, job, step, "bash syntax error", <<>>, 0)>>
    ELSE <<>>

\* lines 530-536: the checks of one run-block
block_errors(ready, path, block) ==
    (IF is_bash_shell(block.shell)
     THEN check_bash_syntax(ready, block.script, path, block.job, block.step)
          \o check_python_c_snippets(block.script, path, block.job, block.step)
     ELSE <<>>)
    \o
    (IF is_pwsh_shell(block.shell)
     THEN check_powershell_command_mode_traps(block.script, path, block.job, block.step)
     ELSE <<>>)

\* validate_workflow_file(path) as one call, in a process whose can_run_bash()
\* returns `ready`
validate_workflow_file(ready, path) ==
    LET loaded == load_yaml(path)
        blocks == extract_job_run_blocks(loaded.data)
    IN  IF loaded.data = Null THEN loaded.errors
        ELSE loaded.errors
             \o validate_release_trigger_rules(path, loaded.data)
             \o validate_release_job_shape(path, loaded.data)
             \o validate_release_macos_signing_rules(path, loaded.data)
             \o Flatten([n \in 1..Len(blocks) |-> block_errors(ready, path, blocks[n])])

-----------------------------------------------------------------------------
(* main and validate_workflow_file, statement by statement *)

Line(text) == [text |-> text, diag |-> DocDiag("", "")]
Bullet(diag) == [text |-> "- ", diag |-> diag]

\* the check named `name` ran on the document being validated
Ran(name) == [checks EXCEPT ![Len(checks)] = Append(@, name)]

\* validate_workflow_file returns `result`; main extends failures and moves on
ReturnFromFile(result) ==
    /\ failures' = failures \o result
    /\ returned' = Append(returned, result)
    /\ idx' = idx + 1
    /\ pc' = IF idx + 1 > Len(workflow_paths) THEN "report" ELSE "load"

\* lines 549-554
Discover ==
    /\ pc = "discover"
    /\ workflow_paths' =
           discover_workflow_paths(IF args = <<>> THEN <<RelFile>> ELSE args)
    /\ IF workflow_paths' = <<>>
       THEN /\ stderr' = Append(stderr, Line("No workflow files found to validate."))
            /\ exit_code' = 2
            /\ pc' = "done"
       ELSE /\ pc' = "probe"
            /\ UNCHANGED <<stderr, exit_code>>
    /\ UNCHANGED <<args, fs, env, BASH_READY, probes, failures, idx, data, errors,
                   checks, returned, run_blocks, bidx, stdout>>

\* lines 556-560
Probe ==
    /\ pc = "probe"
    /\ BASH_READY' = can_run_bash(BASH_READY).ready
    /\ probes' = probes + can_run_bash(BASH_READY).probed
    /\ stderr' = IF BASH_READY' = "True" THEN stderr
                 ELSE Append(stderr,
                        Line("Warning: bash is unavailable; skipping bash syntax checks."))
    /\ pc' = "yamllint"
    /\ UNCHANGED <<args, fs, env, workflow_paths, failures, idx, data, errors,
                   checks, returned, run_blocks, bidx, stdout, exit_code>>

\* main printing the lint tool's diagnostic as soon as it has it
YamllintPrinting ==
    /\ pc = "yamllint"
    /\ failures' = failures \o run_yamllint(workflow_paths)
    /\ stderr' = stderr \o [i \in 1..Len(run_yamllint(workflow_paths)) |->
                               Bullet(run_yamllint(workflow_paths)[i])]
    /\ idx' = 1
    /\ pc' = "load"
    /\ UNCHANGED <<args, fs, env, workflow_paths, BASH_READY, probes, data, errors,
                   checks, returned, run_blocks, bidx, stdout, exit_code>>

\* lines 562-563
Yamllint ==
    /\ pc = "yamllint"
    /\ failures' = failures \o run_yamllint(workflow_paths)
    /\ idx' = 1
    /\ pc' = "load"
    /\ UNCHANGED <<args, fs, env, workflow_paths, BASH_READY, probes, data, errors,
                   checks, returned, run_blocks, bidx, stderr, stdout, exit_code>>

\* lines 564-565 and 520-522
Load ==
    /\ pc = "load"
    /\ LET loaded == load_yaml(workflow_paths[idx])
       IN  /\ data' = loaded.data
           /\ checks' = Append(checks, <<"load_yaml">>)
           /\ IF loaded.data = Null
              THEN /\ ReturnFromFile(loaded.errors)
                   /\ errors' = <<>>
              ELSE /\ errors' = loaded.errors
                   /\ pc' = "trigger"
                   /\ UNCHANGED <<failures, returned, idx>>
    /\ UNCHANGED <<args, fs, env, workflow_paths, BASH_READY, probes, run_blocks,
                   bidx, stderr, stdout, exit_code>>

\* line 524
Trigger ==
    /\ pc = "trigger"
    /\ errors' = errors \o validate_release_trigger_rules(workflow_paths[idx], data)
    /\ checks' = Ran("trigger_rules")
    /\ pc' = "shape"
    /\ UNCHANGED <<args, fs, env, workflow_paths, BASH_READY, probes, failures, idx,
                   data, returned, run_blocks, bidx, stderr, stdout, exit_code>>

\* the job shape check skipped once the trigger rules reported something
ShapeOnlyWhenClean ==
    /\ pc = "shape"
    /\ errors' = IF errors = <<>>
                 THEN validate_release_job_shape(workflow_paths[idx], data)
                 ELSE errors
    /\ checks' = Ran("job_shape")
    /\ pc' = "signing"
    /\ UNCHANGED <<args, fs, env, workflow_paths, BASH_READY, probes, failures, idx,
                   data, returned, run_blocks, bidx, stderr, stdout, exit_code>>

\* line 525
Shape ==
    /\ pc = "shape"
    /\ errors' = errors \o validate_release_job_shape(workflow_paths[idx], data)
    /\ checks' = Ran("job_shape")
    /\ pc' = "signing"
    /\ UNCHANGED <<args, fs, env, workflow_paths, BASH_READY, probes, failures, idx,
                   data, returned, run_blocks, bidx, stderr, stdout, exit_code>>

\* line 526
Signing ==
    /\ pc = "signing"
    /\ errors' = errors \o validate_release_macos_signing_rules(workflow_paths[idx], data)
    /\ checks' = Ran("macos_signing_rules")
    /\ pc' = "extract"
    /\ UNCHANGED <<args, fs, env, workflow_paths, BASH_READY, probes, failures, idx,
                   data, returned, run_blocks, bidx, stderr, stdout, exit_code>>

\* line 528
Extract ==
    /\ pc = "extract"
    /\ run_blocks' = extract_job_run_blocks(data)
    /\ bidx' = 1
    /\ checks' = Ran("extract_job_run_blocks")
    /\ pc' = "block"
    /\ UNCHANGED <<args, fs, env, workflow_paths, BASH_READY, probes, failures, idx,
                   data, errors, returned, stderr, stdout, exit_code>>

\* lines 529-536: one pass of the loop over the run-blocks
Block ==
    /\ pc = "block"
    /\ bidx <= Len(run_blocks)
    /\ LET block == run_blocks[bidx]
           asked == is_bash_shell(block.shell)
           bash == IF asked THEN can_run_bash(BASH_READY)
                   ELSE [ready |-> BASH_READY, probed |-> 0]
       IN  /\ BASH_READY' = bash.ready
           /\ probes' = probes + bash.probed
           /\ errors' = errors \o block_errors(bash.ready, workflow_paths[idx], block)
    /\ bidx' = bidx + 1
    /\ checks' = Ran("run_block")
    /\ UNCHANGED <<args, fs, env, pc, workflow_paths, failures, idx, data, returned,
                   run_blocks, stderr, stdout, exit_code>>

\* line 538, and line 565 of main
Return ==
    /\ pc = "block"
    /\ bidx > Len(run_blocks)
    /\ ReturnFromFile(errors)
    /\ UNCHANGED <<args, fs, env, workflow_paths, BASH_READY, probes, data, errors,
                   checks, run_blocks, bidx, stderr, stdout, exit_code>>

\* main deciding on the documents' diagnostics alone, the lint tool's left out
ReportIgnoringLint ==
    /\ pc = "report"
    /\ IF Flatten(returned) # <<>>
       THEN /\ stderr' = stderr \o <<Line("Workflow validation failed:")>>
                                \o [i \in 1..Len(failures) |-> Bullet(failures[i])]
            /\ exit_code' = 1
            /\ UNCHANGED stdout
       ELSE /\ stdout' = Append(stdout, Line("Workflow validation passed for file(s)."))
            /\ exit_code' = 0
            /\ UNCHANGED stderr
    /\ pc' = "done"
    /\ UNCHANGED <<args, fs, env, workflow_paths, BASH_READY, probes, failures, idx,
                   data, errors, checks, returned, run_blocks, bidx>>

\* lines 567-574
Report ==
    /\ pc = "report"
    /\ IF failures # <<>>
       THEN /\ stderr' = stderr \o <<Line("Workflow validation failed:")>>
                                \o [i \in 1..Len(failures) |-> Bullet(failures[i])]
            /\ exit_code' = 1
            /\ UNCHANGED stdout
       ELSE /\ stdout' = Append(stdout, Line("Workflow validation passed for file(s)."))
            /\ exit_code' = 0
            /\ UNCHANGED stderr
    /\ pc' = "done"
    /\ UNCHANGED <<args, fs, env, workflow_paths, BASH_READY, probes, failures, idx,
                   data, errors, checks, returned, run_blocks, bidx>>

Next ==
    \/ Discover
    \/ Probe
    \/ Yamllint
    \/ Load
    \/ Trigger
    \/ Shape
    \/ Signing
    \/ Extract
    \/ Block
    \/ Return
    \/ Report

\* the state main starts in, whatever the arguments, the files and the environment
Start ==
    /\ pc = "discover"
    /\ workflow_paths = <<>>
    /\ BASH_READY = "None"
    /\ probes = 0
    /\ failures = <<>>
    /\ idx = 0
    /\ data = Null
    /\ errors = <<>>
    /\ checks = <<>>
    /\ returned = <<>>
    /\ run_blocks = <<>>
    /\ bidx = 0
    /\ stderr = <<>>
    /\ stdout = <<>>
    /\ exit_code = -1

-----------------------------------------------------------------------------
(* Documents *)

\* a key that a mapping leaves out
Absent == [t |-> "absent"]

Opt(key, value) == IF value = Absent THEN <<>> ELSE << <<key, value>> >>

GateCondition == S("runner.os == 'macOS' && steps.mac_signing.outputs.enabled == 'true'")

RunStep(script, shell) == M(<< <<"run", S(script)>> >> \o Opt("shell", shell))

NamedStep(name, condition) ==
    M(<< <<"name", S(name)>> >> \o Opt("if", condition) \o << <<"run", S("echo ok")>> >>)

GateStep == M(<< <<"id", S("mac_signing")>>, <<"run", S("echo ok")>> >>)

ShellDefaults(shell) == M(<< <<"run", M(<< <<"shell", shell>> >>)>> >>)

Matrix(pairs) == M(<< <<"matrix", M(pairs)>> >>)

Target(os, target) == M(<< <<"os", S(os)>>, <<"target", S(target)>> >>)

\* one job with one run step
Job(defaults, runs_on, strategy, steps) ==
    M(Opt("defaults", defaults) \o Opt("runs-on", runs_on)
      \o Opt("strategy", strategy) \o << <<"steps", L(steps)>> >>)

GoodOn ==
    M(<< <<"push", M(<< <<"tags", L(<<S("v*")>>)>> >>)>>, <<"workflow_dispatch", Null>> >>)

GoodInclude ==
    L(<< Target("windows-latest", "x86_64-pc-windows-msvc"),
         Target("ubuntu-22.04", "x86_64-unknown-linux-gnu"),
         Target("macos-14", "aarch64-apple-darwin") >>)

GoodBuildSteps ==
    << GateStep,
       NamedStep("Sign, notarize, and verify macOS artifacts", GateCondition),
       NamedStep("Collect release assets", GateCondition),
       NamedStep("Upload release assets", GateCondition) >>

BuildJob(needs, include, steps) ==
    M(Opt("needs", needs)
      \o << <<"runs-on", S("${{ matrix.os }}")>>,
            <<"strategy", Matrix(Opt("include", include))>>,
            <<"steps", L(steps)>> >>)

GoodJobs ==
    << <<"resolve_tag", Job(Absent, S("ubuntu-22.04"), Absent, <<RunStep("echo ok", Absent)>>)>>,
       <<"smoke", M(<< <<"needs", S("resolve_tag")>>, <<"runs-on", S("ubuntu-22.04")>>,
                       <<"steps", L(<<RunStep("echo ok", Absent)>>)>> >>)>>,
       <<"build_package",
         BuildJob(L(<<S("resolve_tag"), S("smoke")>>), GoodInclude, GoodBuildSteps)>>,
       <<"publish", M(<< <<"needs", L(<<S("resolve_tag"), S("build_package")>>)>>,
                         <<"runs-on", S("ubuntu-22.04")>>,
                         <<"steps", L(<<M(<< <<"uses", S("softprops/action-gh-release@v2")>> >>)>>)>> >>)>> >>

ReleaseDoc(onKey, on, jobs) == M(Opt(onKey, on) \o Opt("jobs", jobs))

GoodRelease == ReleaseDoc("on", GoodOn, M(GoodJobs))

\* a workflow that is not the release workflow, with one bash step
GoodCi ==
    M(<< <<KeyTrue, M(<< <<"pull_request", Null>> >>)>>,
         <<"jobs", M(<< <<"test", Job(Absent, S("ubuntu-22.04"), Absent,
                                      <<RunStep("echo ok", Absent)>>)>> >>)>> >>)

\* a workflow with a bash step that does not parse and a broken python snippet
BrokenCi ==
    M(<< <<"jobs", M(<< <<"test", Job(Absent, S("ubuntu-22.04"), Absent,
                                      <<RunStep("if true; then", Absent),
                                        RunStep("python3 -c \"def f(:\"", Absent)>>)>> >>)>> >>)

-----------------------------------------------------------------------------
(* Inputs *)

MaxArgs == 2

\* the argument lists of at most MaxArgs paths
ArgLists(paths) == UNION {[1..n -> paths] : n \in 0..MaxArgs}

Envs == [bash : {"absent", "oserror", "nonzero", "ok"},
         yamllint : {"absent", "fails", "passes"}]

\* a small choice of environments: everything installed, and nothing installed
FewEnvs == {[bash |-> "ok", yamllint |-> "passes"],
            [bash |-> "absent", yamllint |-> "absent"]}

(* The whole program: argument lists over files, a directory with both files,
   an empty directory and a second spelling of a file; each file well-formed,
   defective, unparsable or missing; every environment *)
Init ==
    /\ Start
    /\ args \in ArgLists({RelFile, CiFile, CiAlias, WorkflowDir, EmptyDir})
    /\ fs \in {[f \in Files |-> IF f = RelFile THEN rel ELSE ci] :
                  rel \in {Yaml(GoodRelease), Missing},
                  ci \in {Yaml(GoodCi), Yaml(BrokenCi), BadYaml}}
    /\ env \in Envs

Spec == Init /\ [][Next]_vars

(* Dialect resolution: every combination of a workflow default, a job default
   and a step shell on four runners, and every runner with no shell declared *)
WorkflowDefaultChoices ==
    {Absent, ShellDefaults(S("bash")), ShellDefaults(S("cmd")), ShellDefaults(I(1))}

JobDefaultChoices ==
    {Absent, ShellDefaults(S("pwsh")), ShellDefaults(S("cmd")), S("bash")}

StepShellChoices == {Absent, S("sh"), S(" PowerShell -NoProfile "), S("python"), I(1)}

RunnerChoices ==
    { <<Absent, Absent>>,
      <<S("ubuntu-22.04"), Absent>>,
      <<S("windows-latest"), Absent>>,
      <<S("self-hosted"), Absent>>,
      <<L(<<S("windows-latest"), S("ubuntu-22.04")>>), Absent>>,
      <<L(<<S("self-hosted"), S("Linux")>>), Absent>>,
      <<L(<<>>), Absent>>,
      <<I(1), Absent>>,
      <<S("${{ matrix.os }}"), Absent>>,
      <<S("${{ matrix.os }}"),
        Matrix(<< <<"os", L(<<S("ubuntu-22.04"), S("macos-14")>>)>> >>)>>,
      <<S("${{matrix.os}}"),
        Matrix(<< <<"os", L(<<S("windows-latest"), I(2), S("ubuntu-22.04")>>)>> >>)>>,
      <<S(" ${{ matrix.os }} "),
        Matrix(<< <<"os", S("windows-latest")>>,
                  <<"include", L(<<M(<< <<"os", S("windows-2022")>> >>),
                                   S("x"),
                                   M(<< <<"os", S("windows-latest")>> >>)>>)>> >>)>>,
      <<S("${{ matrix.os }}"),
        Matrix(<< <<"os", L(<<S("macos-14")>>)>>,
                  <<"include", L(<<M(<< <<"os", S("windows-latest")>>,
                                        <<"target", S("x86_64-pc-windows-msvc")>> >>)>>)>> >>)>>,
      <<S("${{ matrix.os || 'ubuntu-latest' }}"),
        Matrix(<< <<"os", L(<<S("windows-latest")>>)>> >>)>>,
      <<S("windows-${{ matrix.ver }}"),
        Matrix(<< <<"ver", L(<<S("2022")>>)>> >>)>>,
      <<L(<<S("${{ matrix.os }}"), S("ubuntu-22.04")>>),
        Matrix(<< <<"os", L(<<S("ubuntu-22.04"), S("macos-14")>>)>> >>)>> }

DialectDoc(wd, jd, ss, r) ==
    M(Opt("defaults", wd)
      \o << <<"jobs", M(<< <<"build",
               Job(jd, r[1], r[2], <<M(<< <<"uses", S("actions/checkout@v4")>> >>),
                                     RunStep("echo ok", ss)>>)>> >>)>> >>)

PrecedenceRunners ==
    {r \in RunnerChoices :
        \/ r[1] \in {S("ubuntu-22.04"), S("windows-latest"), S("self-hosted")}
        \/ r[1] = S("${{ matrix.os || 'ubuntu-latest' }}")}

DialectDocs ==
    {DialectDoc(wd, jd, ss, r) :
        wd \in WorkflowDefaultChoices, jd \in JobDefaultChoices,
        ss \in StepShellChoices, r \in PrecedenceRunners}
    \cup
    {DialectDoc(wd, Absent, ss, r) :
        wd \in {Absent, ShellDefaults(I(1))}, ss \in {Absent, I(1)}, r \in RunnerChoices}

InitDialect ==
    /\ Start
    /\ args \in ArgLists({CiFile})
    /\ fs \in {[f \in Files |-> IF f = CiFile THEN Yaml(d) ELSE Yaml(GoodRelease)] :
                  d \in DialectDocs}
    /\ env = [bash |-> "ok", yamllint |-> "passes"]

SpecDialect == InitDialect /\ [][Next]_vars

(* Loading: each of the two files missing, unparsable, empty, with a list or a
   scalar at its root, or a mapping with and without defects *)
LoadContents ==
    {Missing, BadYaml, Yaml(Null), Yaml(L(<<S("x")>>)), Yaml(S("x")),
     Yaml(M(<<>>)), Yaml(GoodRelease), Yaml(GoodCi), Yaml(BrokenCi)}

InitLoad ==
    /\ Start
    /\ args \in ArgLists({RelFile, CiFile, WorkflowDir})
    /\ fs \in [Files -> LoadContents]
    /\ env \in FewEnvs

SpecLoad == InitLoad /\ [][Next]_vars

(* Scripts: one inline script under each way a dialect comes about *)
ScriptChoices ==
    {"echo ok",
     "if true; then",
     "echo \"${{ a }}\" | (",
     "python3 -c \"def f(:\"",
     "python -c 'print(1)'",
     "python3  -c \"x = (\"; python -c \"print(1)\"; python3 -c 'def f(:'",
     "Test-Path $a -and Test-Path $b",
     "(Test-Path $a) -and (Test-Path $b)",
     "Test-Path ($a) -and Test-Path ($b)",
     "$x = 1\n$y = 2\n\n# both\nTest-Path $a -and Test-Path $b",
     "echo 1\r\ntest-path (a)  -AND  Test-Path (b)\n(Test-Path ($a)) -and (Test-Path ($b))\nTest-Path ($a) -and Test-Path ($b)\n"}

\* <<step shell, runs-on>>
ShellContexts ==
    {<<Absent, S("ubuntu-22.04")>>, <<S("bash"), S("windows-latest")>>,
     <<Absent, S("windows-latest")>>, <<S("pwsh"), S("ubuntu-22.04")>>,
     <<Absent, S("self-hosted")>>, <<S("cmd"), S("ubuntu-22.04")>>}

ScriptDocs ==
    {M(<< <<"jobs", M(<< <<"test", Job(Absent, c[2], Absent,
                                       <<M(<< <<"uses", S("actions/checkout@v4")>> >>),
                                         RunStep(script, c[1])>>)>> >>)>> >>) :
        script \in ScriptChoices, c \in ShellContexts}

InitScript ==
    /\ Start
    /\ args \in ArgLists({CiFile})
    /\ fs \in {[f \in Files |-> IF f = CiFile THEN Yaml(d) ELSE Yaml(GoodRelease)] :
                  d \in ScriptDocs}
    /\ env \in FewEnvs

SpecScript == InitScript /\ [][Next]_vars

-----------------------------------------------------------------------------
(* Claims about the dialect resolver, checked under SpecDialect *)

\* the string a node declares as defaults.run.shell, Absent if it declares none
DeclaredDefault(node) ==
    IF /\ IsMap(Get(node, "defaults"))
       /\ IsMap(Get(Get(node, "defaults"), "run"))
       /\ IsStr(Get(Get(Get(node, "defaults"), "run"), "shell"))
    THEN Get(Get(Get(node, "defaults"), "run"), "shell")
    ELSE Absent

\* the job and the step a run-block was extracted from
BlockJob(block) == Get(Get(data, "jobs"), block.job)
BlockStep(block) == Get(BlockJob(block), "steps").items[block.step + 1]

\* no shell is declared for the block at step, job or workflow level
NoExplicitShell(block) ==
    /\ ~IsStr(Get(BlockStep(block), "shell"))
    /\ DeclaredDefault(BlockJob(block)) = Absent
    /\ DeclaredDefault(data) = Absent

\* the steps of the document that hold an inline script, as <<job, index>>
RunSteps ==
    LET jobs == Get(data, "jobs")
    IN  IF ~IsMap(jobs) THEN {}
        ELSE UNION {
               LET job == jobs.pairs[j][2]
                   steps == Get(job, "steps")
               IN  IF IsMap(job) /\ IsList(steps)
                   THEN {<<jobs.pairs[j][1], i - 1>> :
                            i \in {k \in 1..Len(steps.items) :
                                      /\ IsMap(steps.items[k])
                                      /\ IsStr(Get(steps.items[k], "run"))}}
                   ELSE {} :
               j \in 1..Len(jobs.pairs)}

(* C1: every run-block gets the normalized step shell if the step declares one,
   otherwise the normalized job default if the job declares one, otherwise the
   normalized workflow default if the workflow declares one, otherwise the
   dialect inferred from the job's runner labels; and every step that holds an
   inline script has its run-block. *)
C1_DialectPrecedence ==
    pc = "block" =>
        /\ {<<run_blocks[n].job, run_blocks[n].step>> : n \in 1..Len(run_blocks)} = RunSteps
        /\ \A n \in 1..Len(run_blocks) :
              LET block == run_blocks[n]
                  step == BlockStep(block)
                  job == BlockJob(block)
              IN  block.shell =
                      IF IsStr(Get(step, "shell"))
                      THEN normalize_shell_name(Get(step, "shell"))
                      ELSE IF DeclaredDefault(job) # Absent
                      THEN normalize_shell_name(DeclaredDefault(job))
                      ELSE IF DeclaredDefault(data) # Absent
                      THEN normalize_shell_name(DeclaredDefault(data))
                      ELSE infer_runner_default_shell(job)

\* a block takes the job's default although the workflow default and the runner
\* labels both say otherwise
C1_Witness ==
    /\ pc = "block"
    /\ \E n \in 1..Len(run_blocks) :
          LET block == run_blocks[n]
          IN  /\ ~IsStr(Get(BlockStep(block), "shell"))
              /\ DeclaredDefault(BlockJob(block)) # Absent
              /\ DeclaredDefault(data) # Absent
              /\ block.shell = "pwsh"
              /\ normalize_shell_name(DeclaredDefault(data)) = "bash"
              /\ infer_runner_default_shell(BlockJob(block)) = "bash"

\* a runs-on entry that holds a templating expression and is not exactly one
\* ${{ matrix.<key> }} placeholder
HasOtherExpression(value) ==
    /\ IsStr(value)
    /\ Contains(Chars(value.s), Chars("${{"))
    /\ MATRIX_EXPR_RE(Strip(Chars(value.s))) = <<>>

RunsOnEntries(job) ==
    IF IsList(Get(job, "runs-on")) THEN Get(job, "runs-on").items
    ELSE <<Get(job, "runs-on")>>

(* C2: with no shell declared at step, job or workflow level, a runs-on entry
   holding a templating expression that is not exactly one matrix placeholder
   makes the block's dialect unknown. *)
C2_OtherExpressionIsUnknown ==
    pc = "block" =>
        \A n \in 1..Len(run_blocks) :
            LET block == run_blocks[n]
                entries == RunsOnEntries(BlockJob(block))
            IN  (/\ NoExplicitShell(block)
                 /\ \E i \in 1..Len(entries) : HasOtherExpression(entries[i]))
                => block.shell = "unknown"

\* the jobs of the loaded document that are mappings
JobsOf(root) ==
    IF IsMap(root) /\ IsMap(Get(root, "jobs"))
    THEN {Get(root, "jobs").pairs[j][2] : j \in 1..Len(Get(root, "jobs").pairs)}
    ELSE {}

(* C3: runner-label inference returns bash or pwsh exactly when every effective
   label of the job is of that class, and unknown otherwise; the labels of a
   single-placeholder entry are the matrix key's direct values followed by the
   include entries' values, without duplicates; {ubuntu-22.04} gives bash,
   {windows-latest} pwsh, {windows-latest, ubuntu-22.04} unknown, matrix values
   [ubuntu-22.04, macos-14] bash, and no labels at all unknown. *)
C3_LabelInference ==
    \A job \in {x \in JobsOf(data) : IsMap(x)} :
        LET labels == resolve_runs_on_labels(job)
            got == infer_runner_default_shell(job)
            runs_on == Get(job, "runs-on")
            strategy == Get(job, "strategy")
        IN  /\ got \in {"bash", "pwsh", "unknown"}
            /\ \A d \in {"bash", "pwsh"} :
                  got = d <=> \A i \in 1..Len(labels) : label_class(labels[i]) = d
            /\ runs_on = S("ubuntu-22.04") => labels = <<"ubuntu-22.04">> /\ got = "bash"
            /\ runs_on = S("windows-latest") => labels = <<"windows-latest">> /\ got = "pwsh"
            /\ runs_on = L(<<S("windows-latest"), S("ubuntu-22.04")>>)
                  => labels = <<"windows-latest", "ubuntu-22.04">> /\ got = "unknown"
            /\ runs_on = S("self-hosted") => got = "unknown"
            /\ (/\ runs_on = S("${{ matrix.os }}")
                /\ strategy = Matrix(<< <<"os", L(<<S("ubuntu-22.04"), S("macos-14")>>)>> >>))
                  => labels = <<"ubuntu-22.04", "macos-14">> /\ got = "bash"
            /\ (/\ runs_on = S(" ${{ matrix.os }} ")
                /\ IsMap(strategy)
                /\ Get(Get(strategy, "matrix"), "os") = S("windows-latest"))
                  => labels = <<"windows-latest", "windows-2022">> /\ got = "pwsh"
            /\ (/\ runs_on = S("${{ matrix.os }}")
                /\ IsMap(strategy)
                /\ Get(Get(strategy, "matrix"), "os") = L(<<S("macos-14")>>))
                  => labels = <<"macos-14", "windows-latest">> /\ got = "unknown"
            /\ (runs_on = Null \/ runs_on = L(<<>>)) => got = "unknown"
            /\ (runs_on = S("${{ matrix.os }}") /\ strategy = Null) => got = "unknown"

\* a block whose dialect was inferred from the two labels a placeholder expands to
C3_Witness ==
    /\ pc = "block"
    /\ \E n \in 1..Len(run_blocks) :
          /\ NoExplicitShell(run_blocks[n])
          /\ Get(BlockJob(run_blocks[n]), "runs-on") = S("${{ matrix.os }}")
          /\ resolve_runs_on_labels(BlockJob(run_blocks[n])) = <<"ubuntu-22.04", "macos-14">>
          /\ run_blocks[n].shell = "bash"

-----------------------------------------------------------------------------
(* Claims about the document loader, checked under SpecLoad *)

\* the file is missing, does not parse, or parses to a list or a scalar
LoadFails(path) ==
    \/ FileAt(path).kind \in {"missing", "badyaml"}
    \/ FileAt(path).root.t \in {"list", "str", "int"}

\* what can_run_bash() returns in this process
BashReady == IF env.bash = "ok" THEN "True" ELSE "False"

(* C4: a document that is missing, unparsable or has a list or scalar root gets
   no tree and one diagnostic from load_yaml, validate_workflow_file returns
   exactly that diagnostic and runs no other check on it; every discovered
   document is validated, each with the diagnostics it gets when validated
   alone. *)
C4_LoadFailsSoftly ==
    /\ \A k \in 1..Len(returned) :
          /\ LoadFails(workflow_paths[k]) =>
                /\ load_yaml(workflow_paths[k]).data = Null
                /\ returned[k] = load_yaml(workflow_paths[k]).errors
                /\ Len(returned[k]) = 1
                /\ returned[k][1].path = workflow_paths[k]
                /\ returned[k][1].msg \in {"file does not exist", "YAML parse error",
                                            "expected mapping at root"}
                /\ checks[k] = <<"load_yaml">>
          /\ returned[k] = validate_workflow_file(BashReady, workflow_paths[k])
    /\ pc \in {"report", "done"} /\ workflow_paths # <<>> =>
          /\ Len(returned) = Len(workflow_paths)
          /\ failures = run_yamllint(workflow_paths) \o Flatten(returned)

\* a document that failed to load was followed by one that got its own diagnostics
C4_Witness ==
    /\ pc = "done"
    /\ Len(workflow_paths) = 2
    /\ FileAt(workflow_paths[1]).kind = "badyaml"
    /\ Len(returned[1]) = 1
    /\ ~LoadFails(workflow_paths[2])
    /\ Len(returned[2]) = 2
    /\ returned[2][1].msg = "bash syntax error"

\* the documents validated so far whose file is empty (parses to null)
EmptyDocs == {k \in 1..Len(returned) : FileAt(workflow_paths[k]) = Yaml(Null)}

(* C5 as claimed: an empty document (root null) gets a loader diagnostic and
   no tree, like any other non-mapping root. *)
C5_EmptyDocumentIsReported ==
    \A k \in EmptyDocs :
        /\ checks[k] = <<"load_yaml">>
        /\ Len(returned[k]) = 1
        /\ returned[k][1].msg = "expected mapping at root"

(* C5 as amended: an empty document (root null) is loaded as an empty mapping
   with no loader diagnostic, unlike a list or scalar root; every check then
   runs on the empty mapping, which yields the 'on' and the jobs diagnostic for
   the release document and no diagnostic for any other document. *)
C5_EmptyDocumentIsEmptyMapping ==
    /\ (pc = "trigger" /\ FileAt(workflow_paths[idx]) = Yaml(Null)) =>
          data = M(<<>>) /\ errors = <<>>
    /\ \A k \in EmptyDocs :
          /\ checks[k] = <<"load_yaml", "trigger_rules", "job_shape",
                           "macos_signing_rules", "extract_job_run_blocks">>
          /\ returned[k] =
                IF IsRelease(workflow_paths[k])
                THEN <<DocDiag(workflow_paths[k], "expected 'on' to be a mapping"),
                       DocDiag(workflow_paths[k], "expected jobs to be a mapping")>>
                ELSE <<>>

\* an empty document that is not the release workflow passed without a diagnostic
C5_Witness ==
    /\ pc = "done"
    /\ exit_code = 0
    /\ \E k \in EmptyDocs : returned[k] = <<>>

-----------------------------------------------------------------------------
(* Claims about the embedded script checker, checked under SpecScript *)

\* the run-blocks of the k-th validated document (none if it has no tree)
BlocksOf(k) ==
    IF load_yaml(workflow_paths[k]).data = Null THEN {}
    ELSE LET blocks == extract_job_run_blocks(load_yaml(workflow_paths[k]).data)
         IN  {blocks[n] : n \in 1..Len(blocks)}

\* the diagnostics with message msg that document k got for a run-block
BlockDiags(k, block, msg) ==
    LET Mine(d) == d.msg = msg /\ d.job = block.job /\ d.step = block.step
    IN  SelectSeq(returned[k], Mine)

(* C6: the python -c snippet check runs on every run-block whatever its
   dialect: a block resolved to pwsh or unknown gets the same invalid-snippet
   diagnostics as it would get in a bash block. *)
C6_SnippetsCheckedInEveryDialect ==
    \A k \in 1..Len(returned) :
        \A block \in BlocksOf(k) :
            BlockDiags(k, block, "invalid python -c snippet")
                = check_python_c_snippets(block.script, workflow_paths[k],
                                          block.job, block.step)

\* the line holds two Test-Path calls, neither directly behind an opening
\* parenthesis, with -and between them
UnwrappedTestPathPair(line) ==
    LET l == Lower(line)
        Call(i) == StartsAt(l, i, Chars("test-path")) /\ (i = 1 \/ l[i - 1] # "(")
    IN  \E i \in 1..Len(l) : \E j \in (i + 1)..Len(l) :
            /\ Call(i)
            /\ Call(j)
            /\ \E m \in (i + 9)..(j - 1) : StartsAt(l, m, Chars("-and"))

(* C7: for a pwsh run-block the trap check emits exactly one diagnostic,
   carrying the 1-based line number n, for each line n that holds two
   unwrapped Test-Path calls joined by -and, and none for any other line. *)
C7_TrapOnEveryUnwrappedPair ==
    \A k \in 1..Len(returned) :
        \A block \in {b \in BlocksOf(k) : is_pwsh_shell(b.shell)} :
            LET lines == splitlines(Chars(block.script))
                traps == BlockDiags(k, block, "suspicious PowerShell Test-Path expression")
                At(n) == {i \in 1..Len(traps) : traps[i].line = n}
            IN  /\ \A n \in 1..Len(lines) :
                      Cardinality(At(n)) = IF UnwrappedTestPathPair(lines[n]) THEN 1 ELSE 0
                /\ \A i \in 1..Len(traps) : traps[i].line \in 1..Len(lines)

-----------------------------------------------------------------------------
(* Claims about the release trigger rules, checked under SpecTrigger *)

PushChoices ==
    {Absent, Null, L(<<S("tags")>>), M(<<>>),
     M(<< <<"tags", S("v*")>> >>),
     M(<< <<"tags", L(<<S("main")>>)>> >>),
     M(<< <<"tags", L(<<S("main"), S("v*")>>)>> >>)}

\* every "on" mapping: each trigger clause violated or not, on its own
OnMappings ==
    {M(Opt("pull_request", pr) \o Opt("push", push) \o Opt("workflow_dispatch", wd)) :
        pr \in {Absent, Null}, push \in PushChoices, wd \in {Absent, Null}}

\* the release document with "on" missing, not a mapping, or one of OnMappings
\* under either spelling of its key
TriggerDocs ==
    {ReleaseDoc("on", on, M(GoodJobs)) : on \in {Absent, Null, S("push"), L(<<S("push")>>)}}
    \cup {ReleaseDoc(key, on, M(GoodJobs)) : key \in {"on", KeyTrue}, on \in OnMappings}

InitTrigger ==
    /\ Start
    /\ args \in ArgLists({RelFile})
    /\ fs \in {[f \in Files |-> IF f = RelFile THEN Yaml(d) ELSE Yaml(GoodCi)] :
                  d \in TriggerDocs}
    /\ env \in FewEnvs

SpecTrigger == InitTrigger /\ [][Next]_vars

TriggerMessages ==
    {"expected 'on' to be a mapping",
     "release workflow must not define pull_request trigger",
     "release workflow must define push tag trigger",
     "release workflow push trigger must be a mapping",
     "release workflow push.tags must include 'v*'",
     "release workflow must define workflow_dispatch"}

\* how many diagnostics with a message in msgs document k got
Count(k, msgs) ==
    Cardinality({i \in 1..Len(returned[k]) : returned[k][i].msg \in msgs})

\* the "on" section of the k-th validated document (Null if it has none)
OnSectionOf(k) == find_on_section(FileAt(workflow_paths[k]).root)

\* the push clause is violated: no push trigger, one that is not a mapping, or
\* one whose tags are not a list that holds 'v*'
PushViolated(on) ==
    \/ ~Has(on, "push")
    \/ ~IsMap(Get(on, "push"))
    \/ ~IsList(Get(Get(on, "push"), "tags"))
    \/ S("v*") \notin {Get(Get(on, "push"), "tags").items[i] :
                          i \in 1..Len(Get(Get(on, "push"), "tags").items)}

(* C8: with "on" a mapping, every violated trigger clause of the release
   document gets its own diagnostic whatever the other clauses are (so a
   mapping without push and without workflow_dispatch gets both diagnostics);
   with "on" missing or not a mapping there is exactly one trigger diagnostic. *)
C8_TriggerClausesIndependent ==
    \A k \in 1..Len(returned) :
        IsRelease(workflow_paths[k]) =>
            LET on == OnSectionOf(k)
            IN  IF ~IsMap(on)
                THEN Count(k, TriggerMessages) = 1
                ELSE /\ Count(k, {"release workflow must not define pull_request trigger"})
                          = IF Has(on, "pull_request") THEN 1 ELSE 0
                     /\ Count(k, {"release workflow must define push tag trigger",
                                  "release workflow push trigger must be a mapping",
                                  "release workflow push.tags must include 'v*'"})
                          = IF PushViolated(on) THEN 1 ELSE 0
                     /\ Count(k, {"release workflow must define workflow_dispatch"})
                          = IF Has(on, "workflow_dispatch") THEN 0 ELSE 1

-----------------------------------------------------------------------------
(* Claims about the macOS signing gate rules, checked under SpecSigning *)

SignName == "Sign, notarize, and verify macOS artifacts"
CollectName == "Collect release assets"
UploadName == "Upload release assets"

\* a named step is left out, or has the gate condition, no condition, another
\* condition or a condition that is no string
StepChoices == {"none", "gated", "bare", "other", "number"}

StepOf(name, choice) ==
    CASE choice = "none" -> <<>>
      [] choice = "gated" -> <<NamedStep(name, GateCondition)>>
      [] choice = "bare" -> <<NamedStep(name, Absent)>>
      [] choice = "other" -> <<NamedStep(name, S("runner.os == 'macOS'"))>>
      [] choice = "number" -> <<NamedStep(name, I(1))>>

\* the steps of build_package: the gate step or not, then the three named steps
SigningSteps ==
    {gate \o StepOf(SignName, sign) \o StepOf(CollectName, collect)
          \o StepOf(UploadName, upload) :
        gate \in {<<>>, <<GateStep>>},
        sign \in StepChoices, collect \in StepChoices, upload \in StepChoices}

SigningDoc(steps) ==
    ReleaseDoc("on", GoodOn,
        M([i \in 1..Len(GoodJobs) |->
              IF GoodJobs[i][1] = "build_package"
              THEN <<"build_package",
                     BuildJob(L(<<S("resolve_tag"), S("smoke")>>), GoodInclude, steps)>>
              ELSE GoodJobs[i]]))

InitSigning ==
    /\ Start
    /\ args \in ArgLists({RelFile})
    /\ fs \in {[f \in Files |-> IF f = RelFile THEN Yaml(SigningDoc(steps))
                                               ELSE Yaml(GoodCi)] :
                  steps \in SigningSteps}
    /\ env \in FewEnvs

SpecSigning == InitSigning /\ [][Next]_vars

\* the build_package job of the k-th validated document
BuildJobOf(k) == Get(Get(FileAt(workflow_paths[k]).root, "jobs"), "build_package")

\* the named step of the job is missing or lacks the gate condition
MissingOrMisGated(job, name) ==
    \/ find_step(job, "name", name) = Null
    \/ ~IsGated(find_step(job, "name", name))

\* how many diagnostics document k got about the named collect or upload step
CountNamed(k, name) ==
    Cardinality({i \in 1..Len(returned[k]) :
        /\ returned[k][i].names = <<name>>
        /\ returned[k][i].msg \in
              {"missing step in build_package",
               "step must be gated by steps.mac_signing.outputs.enabled == 'true'"}})

(* C9: each of the gate step, the signing step, the collect step and the
   upload step of build_package that is missing or mis-gated gets its own
   diagnostic whatever the state of the other three; a missing gate step
   does not suppress the diagnostics of the other steps. *)
C9_SigningStepsIndependent ==
    \A k \in 1..Len(returned) :
        IsRelease(workflow_paths[k]) /\ IsMap(BuildJobOf(k)) =>
            /\ Count(k, {"build_package must define a mac signing gate step with id 'mac_signing'"})
                  = IF find_step(BuildJobOf(k), "id", "mac_signing") = Null THEN 1 ELSE 0
            /\ Count(k, {"build_package must include 'Sign, notarize, and verify macOS artifacts' step",
                         "mac signing step must be gated by steps.mac_signing.outputs.enabled == 'true'"})
                  = IF MissingOrMisGated(BuildJobOf(k), SignName) THEN 1 ELSE 0
            /\ CountNamed(k, CollectName)
                  = IF MissingOrMisGated(BuildJobOf(k), CollectName) THEN 1 ELSE 0
            /\ CountNamed(k, UploadName)
                  = IF MissingOrMisGated(BuildJobOf(k), UploadName) THEN 1 ELSE 0

-----------------------------------------------------------------------------
(* Claims about the release job shape, checked under SpecShape *)

\* each required job left out, well-formed, failing its deeper checks, or null
JobChoices(name) ==
    CASE name = "resolve_tag" -> {Absent, GoodJobs[1][2], Null}
      [] name = "smoke" ->
            {Absent, GoodJobs[2][2], Null,
             Job(Absent, S("ubuntu-22.04"), Absent, <<RunStep("echo ok", Absent)>>)}
      [] name = "build_package" ->
            {Absent, GoodJobs[3][2], Null,
             BuildJob(S("resolve_tag"),
                      L(<<Target("windows-latest", "x86_64-pc-windows-msvc")>>),
                      GoodBuildSteps)}
      [] name = "publish" ->
            {Absent, GoodJobs[4][2], Null,
             Job(Absent, S("ubuntu-22.04"), Absent, <<RunStep("echo ok", Absent)>>)}

ShapeDocs ==
    {ReleaseDoc("on", GoodOn, jobs) : jobs \in {Absent, Null, L(<<S("smoke")>>)}}
    \cup
    {ReleaseDoc("on", GoodOn,
                M(Opt("resolve_tag", r) \o Opt("smoke", s)
                  \o Opt("build_package", b) \o Opt("publish", p)
                  \o << <<"docs", Job(Absent, S("ubuntu-22.04"), Absent,
                                      <<RunStep("echo ok", Absent)>>)>> >>)) :
        r \in JobChoices("resolve_tag"), s \in JobChoices("smoke"),
        b \in JobChoices("build_package"), p \in JobChoices("publish")}

InitShape ==
    /\ Start
    /\ args \in ArgLists({RelFile})
    /\ fs \in {[f \in Files |-> IF f = RelFile THEN Yaml(d) ELSE Yaml(GoodCi)] :
                  d \in ShapeDocs}
    /\ env \in FewEnvs

SpecShape == InitShape /\ [][Next]_vars

\* the jobs section of the k-th validated document
JobsSectionOf(k) == Get(FileAt(workflow_paths[k]).root, "jobs")

\* the required job names the jobs section lacks
MissingJobs(jobs) ==
    {name \in {"resolve_tag", "smoke", "build_package", "publish"} : ~Has(jobs, name)}

\* the diagnostics of the checks behind the presence check
DeeperMessages ==
    {"smoke job must need resolve_tag", "smoke job must be a mapping",
     "build_package job must need resolve_tag and smoke",
     "build_package matrix is missing expected targets",
     "build_package job must be a mapping",
     "publish job must need resolve_tag and build_package",
     "publish job must include softprops/action-gh-release upload step",
     "publish job must be a mapping"}

\* the diagnostics of document k that list missing jobs
MissingJobDiags(k) ==
    LET Lists(d) == d.msg = "missing required release jobs"
    IN  SelectSeq(returned[k], Lists)

(* C10: when the jobs mapping of the release document lacks at least one
   required job, the job-shape validator emits exactly one diagnostic, which
   lists every missing job name once and nothing else, and no diagnostic of a
   deeper check (needs, matrix completeness, upload step) for the jobs that
   are present. *)
C10_MissingJobsReportedTogether ==
    \A k \in 1..Len(returned) :
        (/\ IsRelease(workflow_paths[k])
         /\ IsMap(JobsSectionOf(k))
         /\ MissingJobs(JobsSectionOf(k)) # {}) =>
            /\ Len(MissingJobDiags(k)) = 1
            /\ LET names == MissingJobDiags(k)[1].names
               IN  /\ {names[i] : i \in 1..Len(names)} = MissingJobs(JobsSectionOf(k))
                   /\ Len(names) = Cardinality(MissingJobs(JobsSectionOf(k)))
            /\ Count(k, DeeperMessages) = 0
            /\ Count(k, {"expected jobs to be a mapping"}) = 0

\* two jobs were missing and reported together while the publish job that is
\* present would have failed its needs and upload-step checks
C10_Witness ==
    /\ pc = "done"
    /\ \E k \in 1..Len(returned) :
          /\ IsRelease(workflow_paths[k])
          /\ IsMap(JobsSectionOf(k))
          /\ MissingJobs(JobsSectionOf(k)) = {"resolve_tag", "smoke"}
          /\ Len(publish_errors(workflow_paths[k], Get(JobsSectionOf(k), "publish"))) = 2
          /\ Len(MissingJobDiags(k)) = 1
          /\ MissingJobDiags(k)[1].names = <<"resolve_tag", "smoke">>

-----------------------------------------------------------------------------
(* Claims about the order and accumulation of a document's checks, checked
   under SpecChecks *)

\* GoodJobs with one job replaced
WithJob(name, job) ==
    [i \in 1..Len(GoodJobs) |->
        IF GoodJobs[i][1] = name THEN <<name, job>> ELSE GoodJobs[i]]

\* a jobs section that passes, one without smoke, one whose build_package has
\* no gate step and a broken snippet, one whose resolve_tag has a broken script
JobsChoices ==
    {M(GoodJobs),
     M(SelectSeq(GoodJobs, LAMBDA pair : pair[1] # "smoke")),
     M(WithJob("build_package",
               BuildJob(S("resolve_tag"), GoodInclude,
                        <<RunStep("python3 -c \"def f(:\"", S("bash"))>>))),
     M(WithJob("resolve_tag",
               Job(Absent, S("ubuntu-22.04"), Absent,
                   <<RunStep("echo ok", Absent), RunStep("if true; then", Absent)>>))),
     Absent}

\* an "on" section that passes, one with pull_request, none, and a scalar
OnChoices ==
    {GoodOn,
     M(<< <<"pull_request", Null>> >> \o GoodOn.pairs),
     Absent,
     S("push")}

ChecksDocs == {ReleaseDoc("on", on, jobs) : on \in OnChoices, jobs \in JobsChoices}

InitChecks ==
    /\ Start
    /\ args \in ArgLists({RelFile, CiFile})
    /\ fs \in {[f \in Files |-> IF f = RelFile THEN Yaml(d) ELSE ci] :
                  d \in ChecksDocs, ci \in {Yaml(BrokenCi), BadYaml}}
    /\ env \in FewEnvs

SpecChecks == InitChecks /\ [][Next]_vars

\* the diagnostics of the run-blocks n..m of a document, in order
BlockErrorsUpTo(path, blocks, m) ==
    Flatten([n \in 1..m |-> block_errors(BASH_READY, path, blocks[n])])

\* what the checks up to and including `stage` give for the document at path
\* whose tree is root, concatenated in the order trigger rules, job shape,
\* signing gate, run-blocks 1..m
Accumulated(path, root, stage, m) ==
    (IF stage >= 1 THEN validate_release_trigger_rules(path, root) ELSE <<>>)
    \o (IF stage >= 2 THEN validate_release_job_shape(path, root) ELSE <<>>)
    \o (IF stage >= 3 THEN validate_release_macos_signing_rules(path, root) ELSE <<>>)
    \o (IF stage >= 4
        THEN BlockErrorsUpTo(path, extract_job_run_blocks(root), m)
        ELSE <<>>)

\* the checks that validate_workflow_file calls on a tree with n run-blocks
AllChecks(n) ==
    <<"load_yaml", "trigger_rules", "job_shape", "macos_signing_rules",
      "extract_job_run_blocks">> \o [i \in 1..n |-> "run_block"]

(* C11: on every document that loads to a mapping the trigger rules, the job
   shape rules, the signing gate rules and the script checks of every
   run-block all run, in that order, whatever the others reported; at every
   point of the validation the document's diagnostics are the results of the
   checks run so far, concatenated in that order (so nothing once appended is
   removed), and what is returned is the concatenation of all of them. *)
C11_AllChecksRunAndAccumulate ==
    /\ pc \in {"trigger", "shape", "signing", "extract", "block"} =>
          LET stage == CASE pc = "trigger" -> 0 [] pc = "shape" -> 1
                         [] pc = "signing" -> 2 [] pc = "extract" -> 3
                         [] pc = "block" -> 4
          IN  /\ data = load_yaml(workflow_paths[idx]).data
              /\ errors = Accumulated(workflow_paths[idx], data, stage, bidx - 1)
              /\ checks[idx] = SubSeq(AllChecks(bidx - 1), 1,
                                      IF stage = 4 THEN 4 + bidx ELSE stage + 1)
    /\ \A k \in 1..Len(returned) :
          LET root == load_yaml(workflow_paths[k]).data
              n == Len(extract_job_run_blocks(root))
          IN  root # Null =>
                /\ checks[k] = AllChecks(n)
                /\ returned[k] = Accumulated(workflow_paths[k], root, 4, n)

\* a release document with a pull_request trigger was returned with its
\* trigger diagnostic followed by job-shape, signing-gate and script diagnostics
C11_Witness ==
    /\ pc = "done"
    /\ \E k \in 1..Len(returned) :
          LET path == workflow_paths[k]
              root == load_yaml(path).data
          IN  /\ root # Null
              /\ IsRelease(path)
              /\ IsMap(find_on_section(root))
              /\ Has(find_on_section(root), "pull_request")
              /\ Len(validate_release_trigger_rules(path, root)) = 1
              /\ validate_release_job_shape(path, root) # <<>>
              /\ validate_release_macos_signing_rules(path, root) # <<>>
              /\ BlockErrorsUpTo(path, extract_job_run_blocks(root),
                                 Len(extract_job_run_blocks(root))) # <<>>
              /\ Len(returned[k]) >= 4

-----------------------------------------------------------------------------
(* Claims about the needs of the release jobs, checked under SpecNeeds *)

\* no needs, a single string, lists of strings, a list with an entry that is
\* no string, and a number
NeedsChoices ==
    {Absent, S("resolve_tag"), S("smoke"),
     L(<<S("resolve_tag"), S("smoke")>>),
     L(<<S("build_package"), S("resolve_tag")>>),
     L(<<I(1), S("resolve_tag"), S("smoke"), S("build_package")>>),
     I(1)}

NeedsDoc(smoke, build, publish) ==
    ReleaseDoc("on", GoodOn,
        M(<< GoodJobs[1],
             <<"smoke",
               M(Opt("needs", smoke)
                 \o << <<"runs-on", S("ubuntu-22.04")>>,
                       <<"steps", L(<<RunStep("echo ok", Absent)>>)>> >>)>>,
             <<"build_package", BuildJob(build, GoodInclude, GoodBuildSteps)>>,
             <<"publish",
               M(Opt("needs", publish)
                 \o << <<"runs-on", S("ubuntu-22.04")>>,
                       <<"steps", L(<<M(<< <<"uses",
                            S("softprops/action-gh-release@v2")>> >>)>>)>> >>)>> >>))

InitNeeds ==
    /\ Start
    /\ args \in ArgLists({RelFile})
    /\ fs \in {[f \in Files |-> IF f = RelFile THEN Yaml(NeedsDoc(s, b, p))
                                               ELSE Yaml(GoodCi)] :
                  s \in NeedsChoices, b \in NeedsChoices, p \in NeedsChoices}
    /\ env \in FewEnvs

SpecNeeds == InitNeeds /\ [][Next]_vars

\* the job names a job's needs holds: a single string, or the string entries
\* of a list; anything else holds none
NeedsOf(k, name) ==
    LET needs == Get(Get(JobsSectionOf(k), name), "needs")
    IN  CASE needs.t = "str" -> {needs.s}
          [] needs.t = "list" ->
                {e.s : e \in {needs.items[i] : i \in
                                 {j \in 1..Len(needs.items) : needs.items[j].t = "str"}}}
          [] OTHER -> {}

\* all four required jobs of document k are mappings
AllJobsAreMappings(k) ==
    /\ IsMap(JobsSectionOf(k))
    /\ \A name \in {"resolve_tag", "smoke", "build_package", "publish"} :
          Has(JobsSectionOf(k), name) /\ IsMap(Get(JobsSectionOf(k), name))

NeedsMessages ==
    {"smoke job must need resolve_tag",
     "build_package job must need resolve_tag and smoke",
     "publish job must need resolve_tag and build_package"}

(* C12: with all four required jobs present as mappings, the job-shape
   validator emits the needs diagnostic of smoke, build_package or publish
   exactly when the job's needs lacks one of its required dependencies
   ({resolve_tag}, {resolve_tag, smoke}, {resolve_tag, build_package}), and
   never more than one per job. *)
C12_NeedsDiagnostics ==
    \A k \in 1..Len(returned) :
        IsRelease(workflow_paths[k]) /\ AllJobsAreMappings(k) =>
            /\ Count(k, {"smoke job must need resolve_tag"})
                  = IF {"resolve_tag"} \subseteq NeedsOf(k, "smoke") THEN 0 ELSE 1
            /\ Count(k, {"build_package job must need resolve_tag and smoke"})
                  = IF {"resolve_tag", "smoke"} \subseteq NeedsOf(k, "build_package")
                    THEN 0 ELSE 1
            /\ Count(k, {"publish job must need resolve_tag and build_package"})
                  = IF {"resolve_tag", "build_package"} \subseteq NeedsOf(k, "publish")
                    THEN 0 ELSE 1

\* a publish job whose needs lacks only build_package got the one needs
\* diagnostic of the document, while smoke's single string was accepted
C12_Witness ==
    /\ pc = "done"
    /\ \E k \in 1..Len(returned) :
          /\ IsRelease(workflow_paths[k])
          /\ AllJobsAreMappings(k)
          /\ Get(Get(JobsSectionOf(k), "smoke"), "needs") = S("resolve_tag")
          /\ NeedsOf(k, "publish") = {"resolve_tag", "smoke"}
          /\ Count(k, NeedsMessages) = 1
          /\ Count(k, {"publish job must need resolve_tag and build_package"}) = 1

-----------------------------------------------------------------------------
(* Claims about the build matrix of the release document, checked under
   SpecMatrix *)

RequiredTargets ==
    {<<"windows-latest", "x86_64-pc-windows-msvc">>,
     <<"ubuntu-22.04", "x86_64-unknown-linux-gnu">>,
     <<"macos-14", "aarch64-apple-darwin">>}

\* the include entries that come with the required ones: none, a pair that is
\* not required, a required os with another target, and entries that give no
\* pair of strings
ExtraEntries ==
    {<<>>,
     <<Target("ubuntu-22.04", "aarch64-unknown-linux-gnu")>>,
     <<Target("windows-latest", "x86_64-unknown-linux-gnu"), Target("macos-13", "x")>>,
     <<S("macos-14"), M(<< <<"os", S("macos-14")>> >>),
       M(<< <<"os", I(14)>>, <<"target", S("aarch64-apple-darwin")>> >>)>>}

\* macOS, Linux, Windows: the required entries of `present`, in that order
RequiredEntries(present) ==
    LET Present(e) == <<Get(e, "os").s, Get(e, "target").s>> \in present
    IN  SelectSeq(<<GoodInclude.items[3], GoodInclude.items[2], GoodInclude.items[1]>>,
                  Present)

IncludeChoices ==
    {L(extra \o RequiredEntries(present)) :
        extra \in ExtraEntries, present \in SUBSET RequiredTargets}
    \cup {Absent, S("windows-latest")}

MatrixDocs ==
    {ReleaseDoc("on", GoodOn,
        M(WithJob("build_package",
                  BuildJob(L(<<S("resolve_tag"), S("smoke")>>), include,
                           GoodBuildSteps)))) :
        include \in IncludeChoices}
    \cup
    {ReleaseDoc("on", GoodOn,
        M(WithJob("build_package",
                  M(<< <<"needs", L(<<S("resolve_tag"), S("smoke")>>)>>,
                       <<"runs-on", S("ubuntu-22.04")>> >>
                    \o Opt("strategy", strategy)
                    \o << <<"steps", L(GoodBuildSteps)>> >>)))) :
        strategy \in {Absent, S("matrix"), M(<< <<"matrix", L(<<>>)>> >>)}}

InitMatrix ==
    /\ Start
    /\ args \in ArgLists({RelFile})
    /\ fs \in {[f \in Files |-> IF f = RelFile THEN Yaml(d) ELSE Yaml(GoodCi)] :
                  d \in MatrixDocs}
    /\ env \in FewEnvs

SpecMatrix == InitMatrix /\ [][Next]_vars

\* the (os, target) pairs of the include entries of build_package in document k
IncludedPairs(k) ==
    LET build == Get(JobsSectionOf(k), "build_package")
        strategy == Get(build, "strategy")
        matrix == IF strategy.t = "map" THEN Get(strategy, "matrix") ELSE Null
        include == IF matrix.t = "map" THEN Get(matrix, "include") ELSE Null
        entries == IF include.t = "list"
                   THEN {include.items[i] : i \in 1..Len(include.items)}
                   ELSE {}
    IN  {<<Get(e, "os").s, Get(e, "target").s>> :
            e \in {x \in entries : /\ x.t = "map"
                                   /\ Get(x, "os").t = "str"
                                   /\ Get(x, "target").t = "str"}}

\* the diagnostics of document k about missing targets
MatrixDiags(k) ==
    LET About(d) == d.msg = "build_package matrix is missing expected targets"
    IN  SelectSeq(returned[k], About)

\* the pairs a diagnostic lists
ListedPairs(d) ==
    {<<d.names[2 * i - 1], d.names[2 * i]>> : i \in 1..(Len(d.names) \div 2)}

(* C13: with all four required jobs present, the matrix check of build_package
   emits nothing when the (os, target) pairs of the include entries are a
   superset of the three required pairs, and otherwise exactly one diagnostic
   that lists exactly the required pairs that are absent, each once; extra
   pairs are never listed. *)
C13_MatrixCompleteness ==
    \A k \in 1..Len(returned) :
        IsRelease(workflow_paths[k]) /\ AllJobsAreMappings(k) =>
            IF RequiredTargets \subseteq IncludedPairs(k)
            THEN MatrixDiags(k) = <<>>
            ELSE /\ Len(MatrixDiags(k)) = 1
                 /\ ListedPairs(MatrixDiags(k)[1]) = RequiredTargets \ IncludedPairs(k)
                 /\ Len(MatrixDiags(k)[1].names)
                       = 2 * Cardinality(RequiredTargets \ IncludedPairs(k))

\* an include with the Windows and the Linux pair and a pair that is not
\* required got one diagnostic that lists the macOS pair only
C13_Witness ==
    /\ pc = "done"
    /\ \E k \in 1..Len(returned) :
          /\ IsRelease(workflow_paths[k])
          /\ AllJobsAreMappings(k)
          /\ IncludedPairs(k) =
                {<<"windows-latest", "x86_64-pc-windows-msvc">>,
                 <<"ubuntu-22.04", "x86_64-unknown-linux-gnu">>,
                 <<"ubuntu-22.04", "aarch64-unknown-linux-gnu">>}
          /\ Len(MatrixDiags(k)) = 1
          /\ MatrixDiags(k)[1].names = <<"macos-14", "aarch64-apple-darwin">>

-----------------------------------------------------------------------------
(* Claims about main, checked under Spec *)

\* what discovery yields for the arguments of this run
Discovered == discover_workflow_paths(IF args = <<>> THEN <<RelFile>> ELSE args)

\* the lint tool's diagnostic followed by every discovered document's diagnostics
AccumulatedFailures ==
    run_yamllint(Discovered)
    \o Flatten([k \in 1..Len(Discovered) |->
                   validate_workflow_file(BashReady, Discovered[k])])

\* the diagnostics printed as bullets on the error stream, in order
Bullets ==
    LET IsBullet(line) == line.text = "- "
        printed == SelectSeq(stderr, IsBullet)
    IN  [i \in 1..Len(printed) |-> printed[i].diag]

(* C14: main exits with 2 exactly when discovery yields no document, and then
   neither the lint tool nor any validation ran; otherwise with 1 exactly when
   the lint tool's diagnostic and the documents' diagnostics together are not
   empty, and with 0 exactly when they are; with status 1 there is one bullet
   on the error stream for each accumulated diagnostic. *)
C14_ExitStatus ==
    /\ (exit_code = -1) <=> (pc # "done")
    /\ pc = "done" =>
          /\ exit_code \in {0, 1, 2}
          /\ (exit_code = 2) <=> (Discovered = <<>>)
          /\ Discovered = <<>> =>
                /\ failures = <<>> /\ checks = <<>> /\ returned = <<>>
                /\ probes = 0 /\ BASH_READY = "None"
          /\ Discovered # <<>> =>
                /\ failures = AccumulatedFailures
                /\ (exit_code = 1) <=> (AccumulatedFailures # <<>>)
                /\ (exit_code = 0) <=> (AccumulatedFailures = <<>>)
          /\ exit_code = 1 => Bullets = failures
          /\ exit_code # 1 => Bullets = <<>>

\* a run ended with status 1 and a bullet for the lint tool's diagnostic and
\* for the diagnostics of two documents
C14_Witness ==
    /\ pc = "done"
    /\ exit_code = 1
    /\ Len(returned) = 2
    /\ returned[1] # <<>> /\ returned[2] # <<>>
    /\ run_yamllint(workflow_paths) # <<>>
    /\ Len(Bullets) = 1 + Len(returned[1]) + Len(returned[2])

\* every discovered document is free of diagnostics when checked with bash
\* available, and the lint tool, where installed, reports nothing
CleanDocuments ==
    /\ Discovered # <<>>
    /\ \A k \in 1..Len(Discovered) : validate_workflow_file("True", Discovered[k]) = <<>>
    /\ env.yamllint # "fails"

(* C15: a run over documents that produce no diagnostic ends with status 0
   whether or not bash and the lint tool are installed: an unavailable external
   checker only skips the check that depends on it. *)
C15_UnavailableCheckerNeverFails ==
    (pc = "done" /\ CleanDocuments) =>
        /\ exit_code = 0
        /\ failures = <<>>

-----------------------------------------------------------------------------
(* Claims about the shell-availability probe, checked under SpecProbe, in
   which bash can come and go while main runs *)

\* bash is installed, removed or broken by something outside the process
EnvChange ==
    /\ pc # "done"
    /\ \E b \in {"absent", "oserror", "nonzero", "ok"} \ {env.bash} :
          env' = [env EXCEPT !.bash = b]
    /\ UNCHANGED <<args, fs, pc, workflow_paths, BASH_READY, probes, failures, idx,
                   data, errors, checks, returned, run_blocks, bidx, stderr, stdout,
                   exit_code>>

NextProbe == Next \/ EnvChange

InitProbe ==
    /\ Start
    /\ args \in ArgLists({RelFile, CiFile})
    /\ fs \in {[f \in Files |-> IF f = RelFile THEN Yaml(GoodRelease) ELSE ci] :
                  ci \in {Yaml(GoodCi), Yaml(BrokenCi)}}
    /\ env \in Envs

SpecProbe == InitProbe /\ [][NextProbe]_vars

\* how often the warning about bash was printed
Warnings ==
    Cardinality({i \in 1..Len(stderr) :
        stderr[i].text = "Warning: bash is unavailable; skipping bash syntax checks."})

\* the probe ran at most once, the flag is set exactly once it ran, the warning
\* was printed once if the flag is false and never otherwise, and every
\* document got the diagnostics that the one cached value gives
ProbedAtMostOnce ==
    /\ probes \in {0, 1}
    /\ BASH_READY \in {"None", "True", "False"}
    /\ (BASH_READY = "None") <=> (probes = 0)
    /\ (BASH_READY = "None") <=> (pc \in {"discover", "probe"} \/ workflow_paths = <<>>)
    /\ Warnings = IF BASH_READY = "False" THEN 1 ELSE 0
    /\ \A k \in 1..Len(returned) :
          returned[k] = validate_workflow_file(BASH_READY, workflow_paths[k])

\* once set, the flag keeps its value, whatever becomes of bash
FlagIsKept == BASH_READY # "None" => BASH_READY' = BASH_READY

(* C16: in any run the shell-availability probe is executed at most once: the
   first call of can_run_bash sets the flag to true or false, the flag never
   changes or becomes unset afterwards, later calls return it without probing
   (also after a failed probe), every bash syntax check is skipped or performed
   according to that one value, and the warning is printed at most once. *)
C16_ProbeOncePerProcess == []ProbedAtMostOnce /\ [][FlagIsKept]_vars

\* bash became available after the probe had failed, and two documents with
\* bash run-blocks were still validated without a second probe or a bash
\* syntax diagnostic
C16_Witness ==
    /\ pc = "done"
    /\ env.bash = "ok"
    /\ BASH_READY = "False"
    /\ probes = 1
    /\ Len(returned) = 2
    /\ \E k \in 1..2 :
          /\ validate_workflow_file("True", workflow_paths[k]) # returned[k]
          /\ returned[k] = validate_workflow_file("False", workflow_paths[k])

-----------------------------------------------------------------------------
(* Claims about when main prints, checked under Spec *)

\* the lint tool ran, every discovered document was validated and all their
\* diagnostics are in failures
AllCollected ==
    /\ pc = "done"
    /\ Len(returned) = Len(workflow_paths)
    /\ failures = run_yamllint(workflow_paths) \o Flatten(returned)

WarningLine == Line("Warning: bash is unavailable; skipping bash syntax checks.")

\* the lines on the error stream other than the warning about bash
ReportLines == SelectSeq(stderr, LAMBDA line : line # WarningLine)

(* C17 as claimed: with at least one discovered document nothing is printed
   to either stream before the lint tool ran and every discovered document
   was validated. *)
C17_NoOutputBeforeAllCollected ==
    (workflow_paths # <<>> /\ (stderr # <<>> \/ stdout # <<>>)) => AllCollected

(* C17 as amended: with at least one discovered document the one thing printed
   before the lint tool runs and the documents are validated is the warning
   that bash is unavailable, which is printed first, right after the probe;
   the verdict and every diagnostic are printed only once the lint tool ran
   and every document was validated, all diagnostics collected. *)
C17_OnlyWarningBeforeAllCollected ==
    workflow_paths # <<>> =>
        /\ (ReportLines # <<>> \/ stdout # <<>>) => AllCollected
        /\ pc \notin {"discover", "probe"} =>
              /\ BASH_READY = "False" => stderr # <<>> /\ stderr[1] = WarningLine
              /\ BASH_READY = "True" => stderr = ReportLines
        /\ pc \in {"yamllint", "load", "trigger", "shape", "signing", "extract",
                   "block", "report"} =>
              /\ stdout = <<>>
              /\ stderr = IF BASH_READY = "False" THEN <<WarningLine>> ELSE <<>>

\* the warning was on the error stream while the first document was yet to be
\* loaded
C17_Witness ==
    /\ pc = "load"
    /\ idx = 1
    /\ returned = <<>>
    /\ stderr = <<WarningLine>>

-----------------------------------------------------------------------------
(* Claims about discovery, checked under SpecDiscover *)

InitDiscover ==
    /\ Start
    /\ args \in ArgLists({RelFile, CiFile, CiAlias, BuildFile, WorkflowDir, EmptyDir})
    /\ fs \in [{RelFile, CiFile, BuildFile} -> {Yaml(GoodCi), Missing}]
    /\ env = [bash |-> "ok", yamllint |-> "passes"]

SpecDiscover == InitDiscover /\ [][Next]_vars

\* the paths in the order in which sorted() puts them
PathOrder == <<BuildFile, CiAlias, CiFile, RelFile>>

Before(a, b) ==
    \E i \in 1..Len(PathOrder) : \E j \in (i + 1)..Len(PathOrder) :
        PathOrder[i] = a /\ PathOrder[j] = b

IsSorted(paths) == \A i \in 1..Len(paths) : \A j \in (i + 1)..Len(paths) :
                       Before(paths[i], paths[j])

\* the files that exist in a directory and whose name ends with suffix
DirFiles(dir, suffix) ==
    {p \in DOMAIN fs :
        /\ dir = WorkflowDir
        /\ fs[p].kind # "missing"
        /\ EndsWith(PathName(p), Chars(suffix))}

\* the elements of a set of paths as a sorted sequence
Sorted(paths) ==
    CHOOSE seq \in [1..Cardinality(paths) -> paths] :
        {seq[i] : i \in 1..Cardinality(paths)} = paths /\ IsSorted(seq)

\* what the arguments name, in the order given: a directory its *.yml files in
\* sorted order and then its *.yaml files in sorted order, any other argument
\* itself
Named ==
    LET inputs == IF args = <<>> THEN <<RelFile>> ELSE args
    IN  Flatten([i \in 1..Len(inputs) |->
            IF inputs[i] \in {WorkflowDir, EmptyDir}
            THEN Sorted(DirFiles(inputs[i], ".yml")) \o Sorted(DirFiles(inputs[i], ".yaml"))
            ELSE <<inputs[i]>>])

\* the positions of Named that hold the first path of a resolved identity
FirstPositions ==
    {i \in 1..Len(Named) : \A j \in 1..(i - 1) : resolve(Named[j]) # resolve(Named[i])}

(* C18 as claimed: what one directory argument contributes is all its *.yml
   and *.yaml files in sorted order. *)
C18_DirectoryInSortedOrder ==
    (pc # "discover" /\ Len(args) = 1 /\ args[1] \in {WorkflowDir, EmptyDir}) =>
        /\ {workflow_paths[i] : i \in 1..Len(workflow_paths)}
              = DirFiles(args[1], ".yml") \cup DirFiles(args[1], ".yaml")
        /\ IsSorted(workflow_paths)

(* C18 as amended: discovery returns a list in which no two entries resolve to
   the same file; it is the list of what the arguments name, in the order
   given, a directory naming its *.yml files in sorted order followed by its
   *.yaml files in sorted order and any other argument naming itself, with
   every path that resolves to the same file as an earlier one left out. *)
C18_DiscoveryKeepsFirstOfEachFile ==
    pc # "discover" =>
        /\ \A i \in 1..Len(workflow_paths) : \A j \in (i + 1)..Len(workflow_paths) :
              resolve(workflow_paths[i]) # resolve(workflow_paths[j])
        /\ Len(workflow_paths) = Cardinality(FirstPositions)
        /\ \A i \in 1..Len(workflow_paths) :
              \E p \in FirstPositions :
                  /\ workflow_paths[i] = Named[p]
                  /\ Cardinality({q \in FirstPositions : q < p}) = i - 1

\* a file named by another spelling and then through its directory appears
\* once, under the spelling given first, before the directory's other files
C18_Witness ==
    /\ pc # "discover"
    /\ args = <<CiAlias, WorkflowDir>>
    /\ workflow_paths = <<CiAlias, BuildFile, RelFile>>

====
